---- MODULE Spec2Model ----
(***************************************************************************)
(* The content-aware chunking engine of skills/rlm/scripts/rlm_repl.py:    *)
(* _chunk_text, _chunk_markdown, _chunk_code, _chunk_json and the          *)
(* dispatcher _smart_chunk_impl.                                           *)
(*                                                                         *)
(* Content is a sequence of one-character strings.  Offsets are the        *)
(* 0-based offsets of the Python code; At(s, i) reads s[i].                *)
(***************************************************************************)
EXTENDS Integers, Sequences, FiniteSets, TLC

VARIABLES
    op,               \* entry point being run
    content,          \* the text being chunked
    ext,              \* suffix of context_path
    provider,         \* outcome of the symbol provider for this call
    symbols,          \* symbols the provider returns (sorted by start_line)
    target_size, min_size, max_size,
    pc,               \* position of the call
    pos,              \* _chunk_text: loop variable pos
    chunks,           \* chunk metas built so far / returned
    codemap_used,     \* second component of _chunk_code's result
    json_chunked,     \* second component of _chunk_json's result
    data,             \* json.loads(content) inside _chunk_json_array / _chunk_json_object
    format_type,      \* manifest['format']
    chunking_method,  \* manifest['chunking_method']
    CODEMAP_CACHE,    \* _CODEMAP_CACHE: "None" (not checked), "False" or the command
    installed,        \* whether a probe of the symbol provider would find it
    calls,            \* the chunking calls the process has completed, in order
    prompts,          \* _llm_query_batch_impl: argument prompts
    max_retries,      \* _llm_query_batch_impl: argument max_retries
    effective_concurrency,  \* _llm_query_batch_impl: max_workers of the executor
    futures,          \* one submitted execute_with_retry call per prompt
    results,          \* _llm_query_batch_impl: results
    failures,         \* _llm_query_batch_impl: failures, index -> failure_info
    cleanup,          \* _llm_query_batch_impl: argument cleanup
    sub_session_dirs, \* the workers whose sub_session_dir exists on disk
    depth_dir,        \* whether session_dir / depth-<n> exists on disk
    concurrency,      \* _llm_query_batch_impl: argument concurrency
    semaphore,        \* _GLOBAL_CONCURRENCY_SEMAPHORE: the permits left
    queries,          \* threads of the process calling llm_query, each one's position
    spawns,           \* a chain of nested _spawn_sub_agent calls, outermost first
    session           \* the state file of a session and the state of a running exec

vars == <<op, content, ext, provider, symbols, target_size, min_size, max_size,
          pc, pos, chunks, codemap_used, json_chunked, data, format_type, chunking_method,
          CODEMAP_CACHE, installed, calls,
          prompts, max_retries, effective_concurrency, futures, results, failures,
          cleanup, sub_session_dirs, depth_dir, concurrency, semaphore, queries, spawns, session>>

ProcessVars == <<CODEMAP_CACHE, installed, calls>>
BatchVars == <<prompts, max_retries, effective_concurrency, futures, results, failures,
               cleanup, sub_session_dirs, depth_dir, concurrency, semaphore, queries, spawns, session>>

----------------------------------------------------------------------------
(* Bounds of the model *)

MaxTextLen == 7     \* longest content given to _chunk_text
MaxTextSize == 4    \* largest target_size / min_size / max_size for _chunk_text
MaxMdLen == 5       \* longest free-form content given to _chunk_markdown
MaxMdLines == 4     \* most lines of a line-built markdown document
MaxCodeLen == 6     \* longest content given to _chunk_code
MaxSymbols == 3     \* most symbols the provider returns
MaxItems == 3       \* most top-level items of a JSON document

----------------------------------------------------------------------------
(* Helpers *)

Min(a, b) == IF a <= b THEN a ELSE b
Max(a, b) == IF a >= b THEN a ELSE b
SetMin(S) == CHOOSE x \in S : \A y \in S : x <= y
SetMax(S) == CHOOSE x \in S : \A y \in S : x >= y

NL == "\n"
At(s, i) == s[i + 1]
\* Python s[a:b] for 0 <= a, 0 <= b
Slice(s, a, b) == IF a >= Min(b, Len(s)) THEN <<>> ELSE SubSeq(s, a + 1, Min(b, Len(s)))
\* Python's \s on the characters used here
IsSpace(c) == c \in {" ", "\n", "\t"}

RECURSIVE SeqsUpTo(_, _)
\* all sequences over A of length <= n
SeqsUpTo(A, n) ==
    IF n = 0 THEN {<<>>}
    ELSE LET shorter == SeqsUpTo(A, n - 1)
         IN shorter \cup {Append(s, a) : s \in {t \in shorter : Len(t) = n - 1}, a \in A}

Last(s) == s[Len(s)]
Size(c) == c.end - c.start

----------------------------------------------------------------------------
(* _chunk_text *)

\* re.search(r'\s', content[a:b])
SpaceMatchEnd(s, a, b) ==
    LET hits == {i \in a..(b - 1) : IsSpace(At(s, i))}
    IN IF hits = {} THEN -1 ELSE SetMin(hits) + 1

\* variant of space_match: the search runs on content[search_start:], not on the window
SpaceMatchPastWindow(s, a, b) == SpaceMatchEnd(s, a, Len(s))

\* re.search(r'\s', search_region)
space_match(s, a, b) == SpaceMatchEnd(s, a, b)

\* re.search(r'\n\n+', content[a:b]): absolute offset of the end of the match, -1 if none
ParaMatchEnd(s, a, b) ==
    LET starts == {i \in a..(b - 2) : At(s, i) = NL /\ At(s, i + 1) = NL}
    IN IF starts = {} THEN -1
       ELSE LET i == SetMin(starts)
            IN SetMin({j \in (i + 2)..b : j = b \/ At(s, j) # NL})

\* re.search(r'\n', content[a:b])
LineMatchEnd(s, a, b) ==
    LET hits == {i \in a..(b - 1) : At(s, i) = NL}
    IN IF hits = {} THEN -1 ELSE SetMin(hits) + 1

\* variant of HardSplitPos: the split is made at the position itself
HardSplitStuck(p, max) == p

\* the hard split taken when the window holds no separator
HardSplitPos(p, max) == p + max

\* variant of text_split: a single newline is looked for before a paragraph break
text_split_line_first(s, p, target, max) ==
    LET remaining == Len(s) - p
        search_start == p + Min(target, remaining)
        search_end == p + Min(max, remaining)
        para == ParaMatchEnd(s, search_start, search_end)
        line == LineMatchEnd(s, search_start, search_end)
        space == space_match(s, search_start, search_end)
    IN IF line # -1 THEN [split_pos |-> line, split_reason |-> "line"]
       ELSE IF para # -1 THEN [split_pos |-> para, split_reason |-> "paragraph"]
       ELSE IF space # -1 THEN [split_pos |-> space, split_reason |-> "word"]
       ELSE [split_pos |-> HardSplitPos(p, max), split_reason |-> "hard_split"]

\* variant of text_split: the window begins one character early
text_split_early_window(s, p, target, max) ==
    LET remaining == Len(s) - p
        search_start == p + Min(target, remaining) - 1
        search_end == p + Min(max, remaining)
        para == ParaMatchEnd(s, search_start, search_end)
        line == LineMatchEnd(s, search_start, search_end)
        space == space_match(s, search_start, search_end)
    IN IF para # -1 THEN [split_pos |-> para, split_reason |-> "paragraph"]
       ELSE IF line # -1 THEN [split_pos |-> line, split_reason |-> "line"]
       ELSE IF space # -1 THEN [split_pos |-> space, split_reason |-> "word"]
       ELSE [split_pos |-> HardSplitPos(p, max), split_reason |-> "hard_split"]

\* One pass of the loop body with more than max characters remaining:
\* the split position and the reason found.
text_split(s, p, target, max) ==
    LET remaining == Len(s) - p
        search_start == p + Min(target, remaining)
        search_end == p + Min(max, remaining)
        para == ParaMatchEnd(s, search_start, search_end)
        line == LineMatchEnd(s, search_start, search_end)
        space == space_match(s, search_start, search_end)
    IN IF para # -1 THEN [split_pos |-> para, split_reason |-> "paragraph"]
       ELSE IF line # -1 THEN [split_pos |-> line, split_reason |-> "line"]
       ELSE IF space # -1 THEN [split_pos |-> space, split_reason |-> "word"]
       ELSE [split_pos |-> HardSplitPos(p, max), split_reason |-> "hard_split"]

Chunk(s, e, r, b) == [start |-> s, end |-> e, split_reason |-> r, boundaries |-> b]

\* variant of text_last_chunk: the end offset is one short
text_last_chunk_short(s, p, cs) ==
    Chunk(p, Len(s) - 1, IF cs # <<>> THEN "end" ELSE "single_chunk", <<>>)

\* the chunk appended when remaining <= max_size
text_last_chunk(s, p, cs) ==
    Chunk(p, Len(s), IF cs # <<>> THEN "end" ELSE "single_chunk", <<>>)

\* variant of text_split_chunk: the first chunk records the reason found too
text_split_chunk_reason(s, p, cs, target, max) ==
    LET sp == text_split(s, p, target, max)
    IN Chunk(p, sp.split_pos, sp.split_reason, <<>>)

\* the chunk appended after a split
text_split_chunk(s, p, cs, target, max) ==
    LET sp == text_split(s, p, target, max)
    IN Chunk(p, sp.split_pos, IF cs = <<>> THEN "start" ELSE sp.split_reason, <<>>)

RECURSIVE chunk_text_loop(_, _, _, _, _)
chunk_text_loop(s, p, cs, target, max) ==
    IF ~(p < Len(s)) THEN cs
    ELSE IF Len(s) - p <= max THEN Append(cs, text_last_chunk(s, p, cs))
    ELSE LET c == text_split_chunk(s, p, cs, target, max)
         IN chunk_text_loop(s, c.end, Append(cs, c), target, max)

\* _chunk_text as a function of its arguments
chunk_text(s, target, min, max) ==
    IF Len(s) <= max THEN <<Chunk(0, Len(s), "single_chunk", <<>>)>>
    ELSE chunk_text_loop(s, 0, <<>>, target, max)

----------------------------------------------------------------------------
(* _find_header_boundaries: re.finditer(r'^(#{1,6})\s+(.+?)$', content, re.MULTILINE) *)

\* number of '#' characters in a row from offset i
HashRun(s, i) == Cardinality({k \in (i + 1)..Len(s) : \A j \in i..(k - 1) : At(s, j) = "#"})

\* first offset >= h whose character is not whitespace, Len(s) if none
WsEnd(s, h) == SetMin({k \in h..Len(s) : k = Len(s) \/ ~IsSpace(At(s, k))})

\* first offset >= q holding a newline, Len(s) if none: where '$' matches
LineEnd(s, q) == SetMin({k \in q..Len(s) : k = Len(s) \/ At(s, k) = NL})

IsLineStart(s, i) == i = 0 \/ At(s, i - 1) = NL

\* Where (.+?) starts for a match attempted at line start i, -1 if the pattern
\* does not match there.  \s+ is greedy and may run over newlines; it gives
\* characters back until one that '.' accepts follows it.
HeaderTextStart(s, i) ==
    LET k == HashRun(s, i)
        h == i + k
        r == WsEnd(s, h)
        back == {q \in (h + 1)..(r - 1) : At(s, q) # NL}
    IN IF k < 1 \/ k > 6 \/ r = h THEN -1
       ELSE IF r < Len(s) THEN r
       ELSE IF back = {} THEN -1
       ELSE SetMax(back)

\* str.strip() on the characters used here
Strip(t) ==
    LET keep == {k \in 1..Len(t) : ~IsSpace(t[k])}
    IN IF keep = {} THEN <<>> ELSE SubSeq(t, SetMin(keep), SetMax(keep))

RECURSIVE headers_from(_, _)
\* the matches found scanning from offset i: (start, end, level, header_text)
headers_from(s, i) ==
    LET cands == {j \in i..(Len(s) - 1) : IsLineStart(s, j) /\ HeaderTextStart(s, j) # -1}
    IN IF cands = {} THEN <<>>
       ELSE LET j == SetMin(cands)
                q == HeaderTextStart(s, j)
                e == LineEnd(s, q + 1)
            IN <<[start |-> j, end |-> e, level |-> HashRun(s, j),
                  text |-> Strip(Slice(s, q, e))]>> \o headers_from(s, e)

find_header_boundaries(s) == headers_from(s, 0)

\* content[:p].count('\n')
CountNL(s, p) == Cardinality({k \in 0..(p - 1) : At(s, k) = NL})

----------------------------------------------------------------------------
(* _chunk_markdown *)

\* the header_text given to the preamble section
Preamble == <<"(", "p", "r", "e", "a", "m", "b", "l", "e", ")">>

\* lines 643-662: one section per header, plus the preamble
md_sections(s) ==
    LET headers == find_header_boundaries(s)
        secs == [i \in 1..Len(headers) |->
                    [start |-> headers[i].start,
                     end |-> IF i + 1 <= Len(headers) THEN headers[i + 1].start ELSE Len(s),
                     level |-> headers[i].level,
                     header_text |-> headers[i].text,
                     header_line |-> CountNL(s, headers[i].start) + 1]]
    IN IF headers[1].start > 0
       THEN <<[start |-> 0, end |-> headers[1].start, level |-> 0,
               header_text |-> Preamble, header_line |-> 1]>> \o secs
       ELSE secs

Heading(sec) ==
    [type |-> "heading", level |-> sec.level, text |-> sec.header_text, line |-> sec.header_line]

\* variant of HeadingOf: the preamble is recorded like a heading
HeadingOfAny(sec) == <<Heading(sec)>>

\* boundaries entry recorded for a section: none for the preamble
HeadingOf(sec) == IF sec.level > 0 THEN <<Heading(sec)>> ELSE <<>>

\* f"header_level_{section['level']}" for the levels that reach it
HeaderLevelReason ==
    [l \in 0..3 |-> <<"header_level_0", "header_level_1", "header_level_2", "header_level_3">>[l + 1]]

\* variant of md_split_reason: the heading rule is tried before the hard limit
md_split_reason_heading_first(current_size, sec, target, max) ==
    LET section_size == sec.end - sec.start
        combined_size == current_size + section_size
    IN IF current_size >= target /\ sec.level <= 3 THEN HeaderLevelReason[sec.level]
       ELSE IF combined_size > max THEN "max_size"
       ELSE IF current_size >= target /\ 2 * combined_size > 3 * target THEN "target_size"
       ELSE ""

\* variant of md_split_reason: no hard limit
md_split_reason_no_limit(current_size, sec, target, max) ==
    LET section_size == sec.end - sec.start
        combined_size == current_size + section_size
    IN IF current_size >= target /\ sec.level <= 3 THEN HeaderLevelReason[sec.level]
       ELSE IF current_size >= target /\ 2 * combined_size > 3 * target THEN "target_size"
       ELSE ""

\* lines 690-701: the reason to close the current chunk before `sec`, "" to extend
md_split_reason(current_size, sec, target, max) ==
    LET section_size == sec.end - sec.start
        combined_size == current_size + section_size
    IN IF combined_size > max THEN "max_size"
       ELSE IF current_size >= target /\ sec.level <= 3 THEN HeaderLevelReason[sec.level]
       ELSE IF current_size >= target /\ 2 * combined_size > 3 * target THEN "target_size"
       ELSE ""

\* lines 703-725: the current chunk after taking `sec`
md_extend(cur, sec) ==
    [cur EXCEPT !.end = sec.end, !.boundaries = cur.boundaries \o HeadingOf(sec)]

md_new_chunk(sec, reason) == Chunk(sec.start, sec.end, reason, HeadingOf(sec))

RECURSIVE md_assemble(_, _, _, _, _, _)
\* lines 681-728: the loop over sections[1:], then the final append
md_assemble(secs, i, cs, cur, target, max) ==
    IF i > Len(secs) THEN Append(cs, cur)
    ELSE LET reason == md_split_reason(Size(cur), secs[i], target, max)
         IN IF reason # ""
            THEN md_assemble(secs, i + 1, Append(cs, cur), md_new_chunk(secs[i], reason), target, max)
            ELSE md_assemble(secs, i + 1, cs, md_extend(cur, secs[i]), target, max)

\* lines 665-728
md_greedy(s, target, max) ==
    LET secs == md_sections(s)
    IN md_assemble(secs, 2, <<>>, Chunk(secs[1].start, secs[1].end, "start", HeadingOf(secs[1])),
                   target, max)

\* variant of merge_wanted: the last chunk is never merged
merge_wanted_never(cs, min, max) == FALSE

\* lines 731-737 (and 519-525, the same rule in _chunk_code): is the last chunk merged?
merge_wanted(cs, min, max) ==
    /\ Len(cs) > 1
    /\ Size(Last(cs)) < min
    /\ Size(cs[Len(cs) - 1]) + Size(Last(cs)) <= max

\* variant of merge_trailing: the last chunk is popped without extending the previous one
merge_trailing_drop(cs, min, max) ==
    IF merge_wanted(cs, min, max) THEN SubSeq(cs, 1, Len(cs) - 1) ELSE cs

\* lines 731-741: merge a tiny trailing chunk into the one before it
merge_trailing(cs, min, max) ==
    IF merge_wanted(cs, min, max)
    THEN LET n == Len(cs)
             merged == [cs[n - 1] EXCEPT !.end = cs[n].end,
                                         !.boundaries = cs[n - 1].boundaries \o cs[n].boundaries]
         IN Append(SubSeq(cs, 1, n - 2), merged)
    ELSE cs

\* variant of md_repair_one: no post-processing of oversized chunks
md_repair_none(s, c, target, min, max) == <<c>>

\* lines 747-759: what one chunk contributes to final_chunks
md_repair_one(s, c, target, min, max) ==
    IF Size(c) > max
    THEN LET sub == chunk_text(Slice(s, c.start, c.end), target, min, max)
         IN [i \in 1..Len(sub) |->
                Chunk(c.start + sub[i].start, c.start + sub[i].end,
                      IF i > 1 THEN "oversized_section" ELSE c.split_reason,
                      IF i = 1 THEN c.boundaries ELSE <<>>)]
    ELSE <<c>>

RECURSIVE md_repair(_, _, _, _, _, _)
\* lines 744-759
md_repair(s, cs, i, target, min, max) ==
    IF i > Len(cs) THEN <<>>
    ELSE md_repair_one(s, cs[i], target, min, max) \o md_repair(s, cs, i + 1, target, min, max)

\* _chunk_markdown as a function of its arguments
chunk_markdown(s, target, min, max) ==
    IF find_header_boundaries(s) = <<>> THEN chunk_text(s, target, min, max)
    ELSE md_repair(s, merge_trailing(md_greedy(s, target, max), min, max), 1, target, min, max)

----------------------------------------------------------------------------
(* _line_to_char_position and _chunk_code *)

\* offset just after the k-th newline of s (k >= 1, at most the number of newlines)
AfterNewline(s, k) ==
    SetMin({i \in 0..(Len(s) - 1) : At(s, i) = NL /\ CountNL(s, i) = k - 1}) + 1

\* _line_to_char_position: the lengths of the first min(line_num - 1, len(lines))
\* lines of content.split('\n'), plus one each
line_to_char_position(s, line_num) ==
    IF line_num <= 1 THEN 0
    ELSE LET nlines == CountNL(s, Len(s)) + 1
             k == Min(line_num - 1, nlines)
         IN IF k = nlines THEN Len(s) + 1 ELSE AfterNewline(s, k)

\* lines 430-439: start_char, end_char of a symbol
symbol_position(s, sym) ==
    [kind |-> sym.kind, start_line |-> sym.start_line, end_line |-> sym.end_line,
     start_char |-> line_to_char_position(s, sym.start_line),
     end_char |-> Min(line_to_char_position(s, sym.end_line + 1), Len(s))]

symbol_positions(s, syms) == [i \in 1..Len(syms) |-> symbol_position(s, syms[i])]

\* the boundaries entry of a symbol (name and signature are carried along
\* unchanged by the code and are left out)
SymbolBoundary(sym) == [type |-> sym.kind, line |-> sym.start_line]

SplitKinds == {"function", "class", "method", "impl"}

\* f"symbol_{sym['kind']}"
SymbolReason(kind) ==
    CASE kind = "function" -> "symbol_function"
      [] kind = "class" -> "symbol_class"
      [] kind = "method" -> "symbol_method"
      [] kind = "impl" -> "symbol_impl"

\* variant of code_split_reason: only a symbol of a splitting kind closes a
\* chunk that has reached the target
code_split_reason_kinds_only(current_size, sym, target, max) ==
    LET sym_size == sym.end_char - sym.start_char
        combined_size == current_size + sym_size
    IN IF combined_size > max THEN "max_size"
       ELSE IF current_size >= target /\ sym.kind \in SplitKinds THEN SymbolReason(sym.kind)
       ELSE ""

\* lines 461-478: the reason to close the current chunk before `sym`, "" to extend.
\* current_size >= target_size * 1.2 is 5 * current_size >= 6 * target_size.
code_split_reason(current_size, sym, target, max) ==
    LET sym_size == sym.end_char - sym.start_char
        combined_size == current_size + sym_size
    IN IF combined_size > max THEN "max_size"
       ELSE IF current_size >= target /\ sym.kind \in SplitKinds THEN SymbolReason(sym.kind)
       ELSE IF 5 * current_size >= 6 * target THEN "target_size"
       ELSE ""

\* lines 484-495: the chunk started at a symbol
code_new_chunk(sym, reason) == Chunk(sym.start_char, sym.end_char, reason, <<SymbolBoundary(sym)>>)

\* lines 452-458 and 498-504: the current chunk extended by a symbol
code_extend(cur, sym) ==
    [cur EXCEPT !.end = sym.end_char, !.boundaries = Append(cur.boundaries, SymbolBoundary(sym))]

RECURSIVE code_loop(_, _, _, _, _, _)
\* lines 446-504: the loop over symbol_positions; the result is the pair
\* (chunks, current_chunk) at loop exit
code_loop(sps, i, cs, cur, target, max) ==
    IF i > Len(sps) THEN [chunks |-> cs, current_chunk |-> cur]
    ELSE IF cur.end = 0 THEN code_loop(sps, i + 1, cs, code_extend(cur, sps[i]), target, max)
    ELSE LET reason == code_split_reason(Size(cur), sps[i], target, max)
         IN IF reason # ""
            THEN code_loop(sps, i + 1, Append(cs, cur), code_new_chunk(sps[i], reason), target, max)
            ELSE code_loop(sps, i + 1, cs, code_extend(cur, sps[i]), target, max)

\* lines 441-444: the first current_chunk, holding the content before the first symbol
code_first_chunk(sps) ==
    Chunk(0, IF sps # <<>> /\ sps[1].start_char > 0 THEN sps[1].start_char ELSE 0, "start", <<>>)

\* variant of code_trailer: the content after the last symbol is left out
code_trailer_left(s, sps, cur) == cur

\* lines 506-512: the current chunk takes the content after the last symbol
code_trailer(s, sps, cur) ==
    IF sps # <<>>
    THEN IF Last(sps).end_char < Len(s) THEN [cur EXCEPT !.end = Len(s)] ELSE cur
    ELSE [cur EXCEPT !.end = Len(s)]

\* lines 421-516: the chunks before the trailing merge
code_greedy(s, syms, target, max) ==
    LET sps == symbol_positions(s, syms)
        out == code_loop(sps, 1, <<>>, code_first_chunk(sps), target, max)
        cur == code_trailer(s, sps, out.current_chunk)
    IN IF cur.end > cur.start THEN Append(out.chunks, cur) ELSE out.chunks

\* variant of code_uses_provider: an answer without symbols is used too
code_uses_empty_answer(prov, syms) == prov = "ok"

\* does the provider deliver symbols? (lines 379-415)
code_uses_provider(prov, syms) == prov = "ok" /\ syms # <<>>

\* _chunk_code as a function of its arguments and of the provider's answer:
\* (chunk_metas, codemap_used)
chunk_code(s, prov, syms, target, min, max) ==
    IF ~code_uses_provider(prov, syms)
    THEN [chunks |-> chunk_text(s, target, min, max), codemap_used |-> FALSE]
    ELSE LET cs == merge_trailing(code_greedy(s, syms, target, max), min, max)
         IN IF cs = <<>>
            THEN [chunks |-> chunk_text(s, target, min, max), codemap_used |-> FALSE]
            ELSE [chunks |-> cs, codemap_used |-> TRUE]

----------------------------------------------------------------------------
(* JSON values, json.dumps and json.loads                                  *)
(*                                                                         *)
(* A value is a number or an array of values; a document is an array of    *)
(* values or an object whose keys map to values (a dict, in insertion      *)
(* order).  Every value is a record of the same shape.                     *)

JInt(n) == [kind |-> "int", num |-> n, items |-> <<>>]
JArr(xs) == [kind |-> "arr", num |-> 0, items |-> xs]
JList(vs) == [kind |-> "list", keys |-> <<>>, vals |-> vs]
JDict(ks, vs) == [kind |-> "dict", keys |-> ks, vals |-> vs]

DigitChars == <<"0", "1", "2", "3", "4", "5", "6", "7", "8", "9">>
IsDigit(c) == \E d \in 1..10 : DigitChars[d] = c
DigitVal(c) == (CHOOSE d \in 1..10 : DigitChars[d] = c) - 1

RECURSIVE Digits(_)
\* str(n)
Digits(n) == IF n < 10 THEN <<DigitChars[n + 1]>> ELSE Append(Digits(n \div 10), DigitChars[(n % 10) + 1])

RECURSIVE Join(_, _)
\* sep.join(parts)
Join(parts, sep) ==
    IF parts = <<>> THEN <<>>
    ELSE IF Len(parts) = 1 THEN parts[1]
    ELSE parts[1] \o sep \o Join(Tail(parts), sep)

Spaces(n) == [i \in 1..n |-> " "]
Quoted(k) == <<"\"">> \o k \o <<"\"">>

RECURSIVE dumps_compact(_)
\* json.dumps(v, separators=(',', ':')) of a value
dumps_compact(v) ==
    IF v.kind = "int" THEN Digits(v.num)
    ELSE <<"[">> \o Join([i \in 1..Len(v.items) |-> dumps_compact(v.items[i])], <<",">>) \o <<"]">>

RECURSIVE dumps_indent(_, _)
\* json.dumps(..., indent=2) of a value that sits at nesting depth `level`
dumps_indent(v, level) ==
    IF v.kind = "int" THEN Digits(v.num)
    ELSE IF v.items = <<>> THEN <<"[", "]">>
    ELSE <<"[", NL>>
         \o Join([i \in 1..Len(v.items) |->
                    Spaces(2 * (level + 1)) \o dumps_indent(v.items[i], level + 1)], <<",", NL>>)
         \o <<NL>> \o Spaces(2 * level) \o <<"]">>

\* json.dumps(data, separators=(',', ':')) of a document
json_dumps_compact(d) ==
    IF d.kind = "list"
    THEN <<"[">> \o Join([i \in 1..Len(d.vals) |-> dumps_compact(d.vals[i])], <<",">>) \o <<"]">>
    ELSE <<"{">> \o Join([i \in 1..Len(d.vals) |->
                            Quoted(d.keys[i]) \o <<":">> \o dumps_compact(d.vals[i])], <<",">>)
         \o <<"}">>

\* json.dumps(data, indent=2) of a document
json_dumps_indent(d) ==
    IF d.kind = "list"
    THEN dumps_indent(JArr(d.vals), 0)
    ELSE IF d.vals = <<>> THEN <<"{", "}">>
    ELSE <<"{", NL>>
         \o Join([i \in 1..Len(d.vals) |->
                    Spaces(2) \o Quoted(d.keys[i]) \o <<":", " ">> \o dumps_indent(d.vals[i], 1)],
                 <<",", NL>>)
         \o <<NL, "}">>

ParseFail(v) == [ok |-> FALSE, val |-> v, next |-> 0]
ParseOk(v, n) == [ok |-> TRUE, val |-> v, next |-> n]

\* the scanner raised an exception that is not a JSONDecodeError
ParseRaise(v) == [ok |-> FALSE, val |-> v, next |-> -1]

\* the failure of a part r, passed on by the construct that holds it
Fails(r, v) == IF r.next = -1 THEN ParseRaise(v) ELSE ParseFail(v)

\* int() of more digits than this raises ValueError (the interpreter's limit
\* for integer string conversion)
IntMaxStrDigits == 4300

\* first offset >= i that holds no digit
DigitRunEnd(s, i) == SetMin({k \in i..Len(s) : k = Len(s) \/ ~IsDigit(At(s, k))})

RECURSIVE NatOf(_, _, _)
\* the number written by the digits s[i:e]
NatOf(s, i, e) == IF e = i + 1 THEN DigitVal(At(s, i)) ELSE 10 * NatOf(s, i, e - 1) + DigitVal(At(s, e - 1))

\* a JSON number at offset i: digits, no leading zero
parse_int(s, i) ==
    LET e == DigitRunEnd(s, i)
    IN IF e = i \/ (At(s, i) = "0" /\ e > i + 1) THEN ParseFail(JInt(0))
       ELSE IF e - i > IntMaxStrDigits THEN ParseRaise(JInt(0))
       ELSE ParseOk(JInt(NatOf(s, i, e)), e)

RECURSIVE parse_value(_, _)
RECURSIVE parse_elements(_, _, _)
\* a value at offset i
parse_value(s, i) ==
    IF i >= Len(s) THEN ParseFail(JInt(0))
    ELSE IF IsDigit(At(s, i)) THEN parse_int(s, i)
    ELSE IF At(s, i) = "["
    THEN LET j == WsEnd(s, i + 1)
         IN IF j < Len(s) /\ At(s, j) = "]" THEN ParseOk(JArr(<<>>), j + 1)
            ELSE LET r == parse_elements(s, j, <<>>)
                 IN IF r.ok THEN ParseOk(JArr(r.val), r.next) ELSE Fails(r, JInt(0))
    ELSE ParseFail(JInt(0))

\* the elements of an array from offset i (a value is expected there) up to its ']'
parse_elements(s, i, acc) ==
    LET r == parse_value(s, i)
        k == WsEnd(s, r.next)
    IN IF ~r.ok THEN Fails(r, <<>>)
       ELSE IF k >= Len(s) THEN ParseFail(<<>>)
       ELSE IF At(s, k) = "," THEN parse_elements(s, WsEnd(s, k + 1), Append(acc, r.val))
       ELSE IF At(s, k) = "]" THEN ParseOk(Append(acc, r.val), k + 1)
       ELSE ParseFail(<<>>)

\* a string at offset i: '"', characters, '"'
parse_string(s, i) ==
    IF i >= Len(s) \/ At(s, i) # "\"" THEN ParseFail(<<>>)
    ELSE LET ends == {k \in (i + 1)..(Len(s) - 1) : At(s, k) = "\""}
         IN IF ends = {} THEN ParseFail(<<>>)
            ELSE ParseOk(Slice(s, i + 1, SetMin(ends)), SetMin(ends) + 1)

\* dict[key] = value: a repeated key keeps its place and takes the new value
DictSet(d, key, v) ==
    IF \E n \in 1..Len(d.keys) : d.keys[n] = key
    THEN LET n == CHOOSE n \in 1..Len(d.keys) : d.keys[n] = key
         IN [d EXCEPT !.vals[n] = v]
    ELSE JDict(Append(d.keys, key), Append(d.vals, v))

RECURSIVE parse_pairs(_, _, _)
\* the pairs of an object from offset i (a key is expected there) up to its '}'
parse_pairs(s, i, acc) ==
    LET key == parse_string(s, i)
        c == WsEnd(s, key.next)
        r == parse_value(s, WsEnd(s, c + 1))
        k == WsEnd(s, r.next)
    IN IF ~key.ok \/ c >= Len(s) THEN ParseFail(acc)
       ELSE IF At(s, c) # ":" THEN ParseFail(acc)
       ELSE IF ~r.ok THEN Fails(r, acc)
       ELSE IF k >= Len(s) THEN ParseFail(acc)
       ELSE IF At(s, k) = "," THEN parse_pairs(s, WsEnd(s, k + 1), DictSet(acc, key.val, r.val))
       ELSE IF At(s, k) = "}" THEN ParseOk(DictSet(acc, key.val, r.val), k + 1)
       ELSE ParseFail(acc)

NotJson == [ok |-> FALSE, kind |-> "none", keys |-> <<>>, vals |-> <<>>]
Parsed(kind, ks, vs) == [ok |-> TRUE, kind |-> kind, keys |-> ks, vals |-> vs]
Raised == [ok |-> FALSE, kind |-> "raised", keys |-> <<>>, vals |-> <<>>]

\* json.loads(s): NotJson where Python raises JSONDecodeError, Raised where it
\* raises another exception; kind is "list", "dict" or, for any other value,
\* "other"
json_loads(s) ==
    LET i == WsEnd(s, 0)
    IN IF i >= Len(s) THEN NotJson
       ELSE IF At(s, i) = "{"
       THEN LET j == WsEnd(s, i + 1)
                r == IF j < Len(s) /\ At(s, j) = "}" THEN ParseOk(JDict(<<>>, <<>>), j + 1)
                     ELSE parse_pairs(s, j, JDict(<<>>, <<>>))
            IN IF r.ok /\ WsEnd(s, r.next) = Len(s) THEN Parsed("dict", r.val.keys, r.val.vals)
               ELSE IF ~r.ok /\ r.next = -1 THEN Raised
               ELSE NotJson
       ELSE LET r == parse_value(s, i)
            IN IF r.ok /\ WsEnd(s, r.next) = Len(s)
               THEN IF r.val.kind = "arr" THEN Parsed("list", <<>>, r.val.items)
                    ELSE Parsed("other", <<>>, <<>>)
               ELSE IF ~r.ok /\ r.next = -1 THEN Raised
               ELSE NotJson

----------------------------------------------------------------------------
(* _chunk_json_array, _chunk_json_object, _chunk_json                      *)
(*                                                                         *)
(* The two functions differ in the serialized container, the name of the   *)
(* range field (element_range / key_range), the keys list and the reason   *)
(* element_boundary / key_boundary; d.kind selects between them.           *)

\* data[i:j] (list), or {k: data[k] for k in keys[i:j]} (dict)
SubData(d, i, j) == [kind |-> d.kind, keys |-> Slice(d.keys, i, j), vals |-> Slice(d.vals, i, j)]

\* len(json.dumps(data[i:j], indent=2))
PrettyLen(d, i, j) == Len(json_dumps_indent(SubData(d, i, j)))

\* lines 923-926 / 1080-1084: the estimated size of item n (1-based)
item_size(d, n) ==
    IF d.kind = "list" THEN Len(dumps_compact(d.vals[n]))
    ELSE Len(json_dumps_compact(JDict(<<d.keys[n]>>, <<d.vals[n]>>))) - 2

RECURSIVE SumSizes(_, _)
SumSizes(d, n) == IF n = 0 THEN 0 ELSE SumSizes(d, n - 1) + item_size(d, n)

\* lines 928-941 / 1086-1098: max(1, int((target_size - 2) / (avg + 1))) with
\* avg = total_size / len(data); int() truncates toward zero
per_chunk(d, target) ==
    LET n == Len(d.vals)
        total == SumSizes(d, n)
    IN Max(1, IF target - 2 > 0 THEN ((target - 2) * n) \div (total + n) ELSE 0)

RECURSIVE json_shrink(_, _, _, _)
\* lines 955-958: drop items from the end while the group is larger than max_size
json_shrink(d, i, e, max) ==
    IF PrettyLen(d, i, e) > max /\ e > i + 1 THEN json_shrink(d, i, e - 1, max) ELSE e

RECURSIVE json_grow_any(_, _, _, _, _)
\* variant of json_grow: one more item is taken whatever the larger group's size
json_grow_any(d, i, e, target, max) ==
    IF e < Len(d.vals) /\ PrettyLen(d, i, e) < target
    THEN json_grow_any(d, i, e + 1, target, max)
    ELSE e

RECURSIVE json_grow(_, _, _, _, _)
\* lines 961-970: take one more item while the group is below target_size and
\* the larger group still fits max_size
json_grow(d, i, e, target, max) ==
    IF e < Len(d.vals) /\ PrettyLen(d, i, e) < target
    THEN IF PrettyLen(d, i, e + 1) <= max THEN json_grow(d, i, e + 1, target, max) ELSE e
    ELSE e

\* lines 948-970: the end index of the group that starts at item i
json_group_end(d, i, target, max) ==
    json_grow(d, i, json_shrink(d, i, Min(i + per_chunk(d, target), Len(d.vals)), max), target, max)

\* a chunk meta of the JSON splitters
JsonChunk(d, i, e, reason, text) ==
    IF d.kind = "list"
    THEN [start |-> 0, end |-> Len(text), split_reason |-> reason, boundaries |-> <<>>,
          element_range |-> <<i, e>>, json_content |-> text]
    ELSE [start |-> 0, end |-> Len(text), split_reason |-> reason, boundaries |-> <<>>,
          key_range |-> <<i, e>>, keys |-> Slice(d.keys, i, e), json_content |-> text]

\* element_range or key_range of a chunk
Range(c, kind) == IF kind = "list" THEN c.element_range ELSE c.key_range

\* variant of json_split_reason: the group that reaches the last item is
\* recorded like any later group
json_split_reason_boundary(d, cs, e) ==
    IF cs = <<>> THEN "start"
    ELSE IF d.kind = "list" THEN "element_boundary" ELSE "key_boundary"

\* lines 973-978 / 1134-1139
json_split_reason(d, cs, e) ==
    IF cs = <<>> THEN "start"
    ELSE IF e >= Len(d.vals) THEN "end"
    ELSE IF d.kind = "list" THEN "element_boundary" ELSE "key_boundary"

RECURSIVE json_groups(_, _, _, _, _)
\* lines 943-989 / 1100-1151: the while loop over the items
json_groups(d, i, cs, target, max) ==
    IF ~(i < Len(d.vals)) THEN cs
    ELSE LET e == json_group_end(d, i, target, max)
             c == JsonChunk(d, i, e, json_split_reason(d, cs, e), json_dumps_indent(SubData(d, i, e)))
         IN json_groups(d, e, Append(cs, c), target, max)

\* variant of json_merge_wanted: a short last group is left as it is
json_merge_wanted_never(d, cs, min, max) == FALSE

\* lines 992-1003 / 1154-1166: is the last group merged into the one before it?
json_merge_wanted(d, cs, min, max) ==
    /\ Len(cs) > 1
    /\ Len(Last(cs).json_content) < min
    /\ PrettyLen(d, Range(cs[Len(cs) - 1], d.kind)[1], Range(Last(cs), d.kind)[2]) <= max

\* variant of json_merged_chunk: the range is widened, the payload is left as it was
json_merged_stale(d, prev, last) ==
    JsonChunk(d, Range(prev, d.kind)[1], Range(last, d.kind)[2], prev.split_reason, prev.json_content)

\* variant of json_merged_chunk: the payload is re-serialized, the range is left as it was
json_merged_range(d, prev, last) ==
    JsonChunk(d, Range(prev, d.kind)[1], Range(prev, d.kind)[2], prev.split_reason,
              json_dumps_indent(SubData(d, Range(prev, d.kind)[1], Range(last, d.kind)[2])))

\* lines 1004-1006 / 1167-1170: prev after it took the items of last
json_merged_chunk(d, prev, last) ==
    JsonChunk(d, Range(prev, d.kind)[1], Range(last, d.kind)[2], prev.split_reason,
              json_dumps_indent(SubData(d, Range(prev, d.kind)[1], Range(last, d.kind)[2])))

\* lines 991-1007 / 1153-1171
json_merge(d, cs, min, max) ==
    IF json_merge_wanted(d, cs, min, max)
    THEN Append(SubSeq(cs, 1, Len(cs) - 2), json_merged_chunk(d, cs[Len(cs) - 1], Last(cs)))
    ELSE cs

\* variant of json_single: only an empty container is returned as it is
json_single_empty(s, d, max) == Len(d.vals) = 0

\* lines 899-919 / 1052-1075: is the whole content returned as one chunk?
json_single(s, d, max) == Len(d.vals) = 0 \/ Len(s) <= max

\* lines 1199-1209: the container named by the first non-blank character, "" if none
json_container(s) ==
    LET i == WsEnd(s, 0)
    IN IF i >= Len(s) THEN ""
       ELSE IF At(s, i) = "[" THEN "list"
       ELSE IF At(s, i) = "{" THEN "dict"
       ELSE ""


----------------------------------------------------------------------------
(* Properties of a chunk list *)

\* the ranges, in order, tile [0, n)
Tiles(cs, n) ==
    /\ Len(cs) >= 1
    /\ cs[1].start = 0
    /\ \A i \in 1..(Len(cs) - 1) : cs[i].end = cs[i + 1].start
    /\ Last(cs).end = n

----------------------------------------------------------------------------
(* Specification of one _chunk_text call, one loop iteration per step *)

TextChars == {"x", " ", NL}
TextContents == SeqsUpTo(TextChars, MaxTextLen)
TextSizes == 1..MaxTextSize

\* no batch of queries is running
NoWorkers ==
    /\ prompts = <<>>
    /\ max_retries = 0
    /\ effective_concurrency = 0
    /\ futures = <<>>
    /\ results = <<>>
    /\ failures = <<>>
    /\ cleanup = FALSE
    /\ sub_session_dirs = {}
    /\ depth_dir = FALSE
    /\ concurrency = 0
    /\ semaphore = 5
    /\ queries = <<>>

\* no query of a sub-agent is running and no session is open
NoBatch ==
    /\ NoWorkers
    /\ spawns = <<>>
    /\ session = <<>>

\* a single call in a fresh process
NoProcess ==
    /\ CODEMAP_CACHE = "None"
    /\ installed = FALSE
    /\ calls = <<>>
    /\ NoBatch

NoCall ==
    /\ NoProcess
    /\ ext = ""
    /\ provider = "unavailable"
    /\ symbols = <<>>
    /\ codemap_used = FALSE
    /\ json_chunked = FALSE
    /\ data = NotJson
    /\ format_type = "none"
    /\ chunking_method = "none"

InitText ==
    /\ op = "chunk_text"
    /\ content \in TextContents
    /\ target_size \in TextSizes
    /\ min_size \in TextSizes
    /\ max_size \in TextSizes
    /\ pc = "start"
    /\ pos = 0
    /\ chunks = <<>>
    /\ NoCall

\* lines 791-800: the single-chunk return, or entry into the loop
TextEnter ==
    /\ op = "chunk_text" /\ pc = "start"
    /\ IF Len(content) <= max_size
       THEN /\ chunks' = <<Chunk(0, Len(content), "single_chunk", <<>>)>>
            /\ pc' = "done"
       ELSE /\ chunks' = <<>>
            /\ pc' = "loop"
    /\ pos' = 0
    /\ UNCHANGED <<ProcessVars, BatchVars, op, content, ext, provider, symbols, target_size, min_size, max_size,
                   codemap_used, json_chunked, data, format_type, chunking_method>>

\* lines 802-851: one iteration of the while loop; the loop is followed until
\* it has appended one chunk more than the content has characters
TextIterate ==
    /\ op = "chunk_text" /\ pc = "loop"
    /\ Len(chunks) <= Len(content)
    /\ IF ~(pos < Len(content))
       THEN /\ pc' = "done"
            /\ UNCHANGED <<pos, chunks>>
       ELSE IF Len(content) - pos <= max_size
       THEN /\ chunks' = Append(chunks, text_last_chunk(content, pos, chunks))
            /\ pc' = "done"
            /\ UNCHANGED pos
       ELSE LET c == text_split_chunk(content, pos, chunks, target_size, max_size)
            IN /\ chunks' = Append(chunks, c)
               /\ pos' = c.end
               /\ pc' = "loop"
    /\ UNCHANGED <<ProcessVars, BatchVars, op, content, ext, provider, symbols, target_size, min_size, max_size,
                   codemap_used, json_chunked, data, format_type, chunking_method>>

NextText == TextEnter \/ TextIterate

SpecText == InitText /\ [][NextText]_vars

RECURSIVE Concat(_, _, _)
\* content[start:end] of the chunks i.., joined in order
Concat(s, cs, i) ==
    IF i > Len(cs) THEN <<>> ELSE Slice(s, cs[i].start, cs[i].end) \o Concat(s, cs, i + 1)

\* C1: the descriptors returned by _chunk_text tile [0, len(content)): the first
\* starts at 0, each starts where the previous one ended, the last ends at
\* len(content); while the loop runs, the chunks built so far tile [0, pos).
TextTiling ==
    op = "chunk_text" =>
        /\ pc = "loop" => IF chunks = <<>> THEN pos = 0 ELSE Tiles(chunks, pos)
        /\ pc = "done" => Tiles(chunks, Len(content))

\* a finished multi-chunk split whose final remainder is shorter than min_size
TextTilingWitness ==
    /\ op = "chunk_text" /\ pc = "done"
    /\ Len(chunks) >= 2
    /\ Size(Last(chunks)) < min_size
    /\ Size(Last(chunks)) > 0

\* C6: every chunk built by _chunk_text is at most max_size long.
TextMaxSize ==
    op = "chunk_text" /\ pc \in {"loop", "done"} =>
        \A i \in 1..Len(chunks) : Size(chunks[i]) <= max_size

\* a finished split with a hard split and a separator found at the very end of the window
TextMaxSizeWitness ==
    /\ op = "chunk_text" /\ pc = "done"
    /\ \E i \in 1..Len(chunks) : chunks[i].split_reason = "hard_split"
    /\ \E j \in 1..Len(chunks) :
          /\ chunks[j].split_reason \in {"paragraph", "line", "word"}
          /\ Size(chunks[j]) = max_size

\* C11: for any content and any positive sizes, target_size > max_size
\* included, every iteration of the _chunk_text loop either appends the last
\* chunk and leaves the loop or moves pos strictly forward, never past
\* len(content); so the loop ends after finitely many chunks.
TextAdvances ==
    [][op = "chunk_text" /\ pc = "loop" =>
          \/ pc' = "done"
          \/ pc' = "loop" /\ pos' > pos /\ pos' <= Len(content)]_vars

\* the loop has advanced and goes on, with target_size larger than max_size
TextAdvancesWitness ==
    /\ op = "chunk_text" /\ pc = "loop"
    /\ target_size > max_size
    /\ pos > 0 /\ pos < Len(content)
    /\ Len(content) - pos > max_size

----------------------------------------------------------------------------
(* Specification of one _chunk_markdown call: assembly, trailing merge, repair *)

MdChars == {"#", " ", NL, "x"}
MdLines == {<<"#", " ", "x">>, <<"#", "#", " ", "x">>, <<"#", "#", "#", "#", " ", "x">>,
            <<"x", "x">>, <<>>}

RECURSIVE JoinedLines(_)
\* the documents of 1..n lines of MdLines joined by newlines
JoinedLines(n) ==
    IF n = 1 THEN MdLines
    ELSE LET shorter == JoinedLines(n - 1)
         IN shorter \cup {d \o <<NL>> \o l : d \in shorter, l \in MdLines}

MdContents == SeqsUpTo(MdChars, MaxMdLen) \cup JoinedLines(MaxMdLines)
MdSizes == {1, 4, 7, 12}

InitMarkdown ==
    /\ op = "chunk_markdown"
    /\ content \in MdContents
    /\ target_size \in MdSizes
    /\ min_size \in {m \in MdSizes : m <= target_size}
    /\ max_size \in {m \in MdSizes : m >= target_size}
    /\ pc = "start"
    /\ pos = 0
    /\ chunks = <<>>
    /\ NoCall

MdUnchanged ==
    UNCHANGED <<ProcessVars, BatchVars, op, content, ext, provider, symbols, target_size, min_size, max_size,
                pos, codemap_used, json_chunked, data, format_type, chunking_method>>

\* lines 635-639: no header, the text splitter decides
MdNoHeaders ==
    /\ op = "chunk_markdown" /\ pc = "start"
    /\ find_header_boundaries(content) = <<>>
    /\ chunks' = chunk_text(content, target_size, min_size, max_size)
    /\ pc' = "done"
    /\ MdUnchanged

\* lines 641-728: sections, greedy assembly
MdAssemble ==
    /\ op = "chunk_markdown" /\ pc = "start"
    /\ find_header_boundaries(content) # <<>>
    /\ chunks' = md_greedy(content, target_size, max_size)
    /\ pc' = "assembled"
    /\ MdUnchanged

\* lines 730-741
MdMerge ==
    /\ op = "chunk_markdown" /\ pc = "assembled"
    /\ chunks' = merge_trailing(chunks, min_size, max_size)
    /\ pc' = "merged"
    /\ MdUnchanged

\* lines 743-761
MdRepair ==
    /\ op = "chunk_markdown" /\ pc = "merged"
    /\ chunks' = md_repair(content, chunks, 1, target_size, min_size, max_size)
    /\ pc' = "done"
    /\ MdUnchanged

NextMarkdown == MdNoHeaders \/ MdAssemble \/ MdMerge \/ MdRepair

SpecMarkdown == InitMarkdown /\ [][NextMarkdown]_vars

HasHeading == find_header_boundaries(content) # <<>>

\* the chunk list of this call as it stood before the trailing merge
MdAssembled == md_greedy(content, target_size, max_size)
\* ... and before the overflow repair
MdMerged == merge_trailing(MdAssembled, min_size, max_size)

\* C2: for content with at least one heading the chunks returned by
\* _chunk_markdown are ordered and tile [0, len(content)) with no gap and no
\* overlap, so joining content[start:end] over them gives back the content.
MarkdownTiling ==
    op = "chunk_markdown" /\ pc = "done" /\ HasHeading =>
        /\ Tiles(chunks, Len(content))
        /\ \A i \in 1..Len(chunks) : chunks[i].start < chunks[i].end
        /\ Concat(content, chunks, 1) = content

\* a finished call in which the trailing merge and the overflow repair both acted
MarkdownTilingWitness ==
    /\ op = "chunk_markdown" /\ pc = "done" /\ HasHeading
    /\ merge_wanted(MdAssembled, min_size, max_size)
    /\ \E i \in 1..Len(MdMerged) : Size(MdMerged[i]) > max_size
    /\ Len(chunks) >= 3

\* C7: for content with headings every chunk of the final output of
\* _chunk_markdown is at most max_size long.
MarkdownMaxSize ==
    op = "chunk_markdown" /\ pc = "done" /\ HasHeading =>
        \A i \in 1..Len(chunks) : Size(chunks[i]) <= max_size

\* a finished call in which a single section larger than max_size was re-split
\* into pieces, one of them exactly max_size long, and a trailing merge happened
MarkdownMaxSizeWitness ==
    /\ op = "chunk_markdown" /\ pc = "done" /\ HasHeading
    /\ \E k \in 1..Len(md_sections(content)) :
          md_sections(content)[k].end - md_sections(content)[k].start > max_size
    /\ \E i \in 1..Len(chunks) : chunks[i].split_reason = "oversized_section"
    /\ \E i \in 1..Len(chunks) : Size(chunks[i]) = max_size
    /\ merge_wanted(MdAssembled, min_size, max_size)

\* the sections of the content whose first character lies in chunk c
SectionsIn(c) ==
    {i \in 1..Len(md_sections(content)) :
        c.start <= md_sections(content)[i].start /\ md_sections(content)[i].start < c.end}

\* C27: Markdown split decision. At each section after the first a new chunk
\* is started exactly when (a) current size + section size > max_size, or
\* (b) current size >= target_size and the heading level is <= 3, or
\* (c) current size >= target_size and current size + section size >
\* 1.5 x target_size; the reason recorded is max_size, header_level_{level},
\* target_size for the first of these that holds; otherwise the section
\* extends the current chunk.
MarkdownSplitDecision ==
    op = "chunk_markdown" /\ pc = "assembled" =>
      LET secs == md_sections(content) IN
      \A i \in 2..Len(secs) :
        LET cur == CHOOSE k \in 1..Len(chunks) : (i - 1) \in SectionsIn(chunks[k])
            current_size == secs[i].start - chunks[cur].start
            combined_size == current_size + (secs[i].end - secs[i].start)
            a == combined_size > max_size
            b == current_size >= target_size /\ secs[i].level <= 3
            c == current_size >= target_size /\ 2 * combined_size > 3 * target_size
            started == {k \in 1..Len(chunks) : chunks[k].start = secs[i].start}
        IN /\ started # {} <=> a \/ b \/ c
           /\ \A k \in started :
                chunks[k].split_reason =
                    IF a THEN "max_size"
                    ELSE IF b THEN HeaderLevelReason[secs[i].level]
                    ELSE "target_size"
           /\ started = {} => i \in SectionsIn(chunks[cur])

\* an assembly that closed one chunk for target_size and another for a
\* heading or for max_size, and extended a chunk by a section
MarkdownSplitDecisionWitness ==
    /\ op = "chunk_markdown" /\ pc = "assembled"
    /\ \E k \in 1..Len(chunks) : chunks[k].split_reason = "target_size"
    /\ \E k \in 1..Len(chunks) :
          chunks[k].split_reason \in {"max_size", "header_level_1", "header_level_2"}
    /\ \E k \in 1..Len(chunks) : Cardinality(SectionsIn(chunks[k])) >= 2

\* C28: Markdown trailing merge. For min_size <= target_size <= max_size, at
\* the end of the trailing-merge step, when two or more chunks remain the
\* last chunk is at least min_size long or it and the chunk before it exceed
\* max_size together; a merge extends the previous chunk to the end of the
\* last one and puts the last chunk's boundaries after the previous chunk's.
MarkdownTrailingMerge ==
    op = "chunk_markdown" /\ pc = "merged" =>
      LET n == Len(chunks)
          before == MdAssembled
          m == Len(before)
      IN /\ n >= 2 =>
              \/ Size(chunks[n]) >= min_size
              \/ Size(chunks[n]) + Size(chunks[n - 1]) > max_size
         /\ n = m \/ n = m - 1
         /\ n = m => chunks = before
         /\ n = m - 1 =>
              /\ SubSeq(chunks, 1, n - 1) = SubSeq(before, 1, n - 1)
              /\ chunks[n].start = before[m - 1].start
              /\ chunks[n].end = before[m].end
              /\ chunks[n].split_reason = before[m - 1].split_reason
              /\ chunks[n].boundaries = before[m - 1].boundaries \o before[m].boundaries

\* a merge happened, of two chunks that both list a heading, and two or more
\* chunks remain
MarkdownTrailingMergeWitness ==
    /\ op = "chunk_markdown" /\ pc = "merged"
    /\ Len(chunks) >= 2
    /\ Len(chunks) = Len(MdAssembled) - 1
    /\ Len(Last(chunks).boundaries) >= 2

\* C29: Oversized markdown chunks are single sections. A chunk longer than
\* max_size when the overflow repair starts holds exactly one section, is
\* not the product of a trailing merge, and lists at most one heading.
MarkdownOversizedSingle ==
    op = "chunk_markdown" /\ pc = "merged" =>
      \A k \in 1..Len(chunks) :
        Size(chunks[k]) > max_size =>
          /\ Cardinality(SectionsIn(chunks[k])) = 1
          /\ Len(chunks[k].boundaries) <= 1
          /\ \E j \in 1..Len(MdAssembled) : MdAssembled[j] = chunks[k]

\* the repair starts with an oversized chunk that lists a heading, beside a
\* chunk of two sections
MarkdownOversizedSingleWitness ==
    /\ op = "chunk_markdown" /\ pc = "merged"
    /\ \E k \in 1..Len(chunks) : Size(chunks[k]) > max_size /\ Len(chunks[k].boundaries) = 1
    /\ \E k \in 1..Len(chunks) : Cardinality(SectionsIn(chunks[k])) >= 2

RECURSIVE AllBoundaries(_, _)
\* the boundaries lists of cs[i..], one after the other
AllBoundaries(cs, i) ==
    IF i > Len(cs) THEN <<>> ELSE cs[i].boundaries \o AllBoundaries(cs, i + 1)

\* C30: Heading traceability. In the final output every heading of the
\* content is listed exactly once in the boundaries, in document order within
\* and across chunks, in the chunk whose [start, end) holds the heading's
\* first character; the preamble is never listed.
MarkdownHeadingTrace ==
    op = "chunk_markdown" /\ pc = "done" /\ HasHeading =>
      LET headers == find_header_boundaries(content)
          line(h) == CountNL(content, h.start) + 1
          entry(h) == [type |-> "heading", level |-> h.level, text |-> h.text, line |-> line(h)]
      IN /\ AllBoundaries(chunks, 1) = [i \in 1..Len(headers) |-> entry(headers[i])]
         /\ \A k \in 1..Len(chunks) :
              LET inside == {i \in 1..Len(headers) :
                                chunks[k].start <= headers[i].start /\ headers[i].start < chunks[k].end}
              IN /\ Len(chunks[k].boundaries) = Cardinality(inside)
                 /\ \A j \in 1..Len(chunks[k].boundaries) :
                      \E i \in inside : chunks[k].boundaries[j] = entry(headers[i])
         /\ \A k \in 1..Len(chunks) : \A j \in 1..Len(chunks[k].boundaries) :
              chunks[k].boundaries[j].level >= 1

\* a finished call on content with a preamble and two headings or more, in
\* which an oversized section was split again and the headings sit in
\* different chunks
MarkdownHeadingTraceWitness ==
    /\ op = "chunk_markdown" /\ pc = "done" /\ HasHeading
    /\ find_header_boundaries(content)[1].start > 0
    /\ Len(find_header_boundaries(content)) >= 2
    /\ \E k \in 1..Len(chunks) : chunks[k].split_reason = "oversized_section"
    /\ Cardinality({k \in 1..Len(chunks) : chunks[k].boundaries # <<>>}) >= 2

----------------------------------------------------------------------------
(* Specification of one _chunk_code call *)

CodeChars == {"x", NL}
CodeContents == SeqsUpTo(CodeChars, MaxCodeLen)
CodeSizes == {1, 2, 3}
CodeKinds == {"function", "variable"}
\* outcomes of the provider for one call: not installed; the path is not an
\* existing file; subprocess.run raises; it times out; it exits non-zero; it answers
Providers == {"unavailable", "no_file", "error", "timeout", "nonzero_exit", "ok"}

\* line k of s (1-indexed) holds at least one character
NonBlankLine(s, k) ==
    LET p == line_to_char_position(s, k)
    IN p < Len(s) /\ At(s, p) # NL

\* the symbols a provider can report for s: line ranges inside the file that
\* begin and end on a line holding code
SymbolsOf(s) ==
    LET nlines == CountNL(s, Len(s)) + 1
    IN {sym \in [kind : CodeKinds, start_line : 1..nlines, end_line : 1..nlines] :
            /\ sym.start_line <= sym.end_line
            /\ NonBlankLine(s, sym.start_line)
            /\ NonBlankLine(s, sym.end_line)}

\* two symbols of a syntax tree, the earlier one first: they lie apart or the
\* later one lies inside the earlier one
ApartOrNested(a, b) ==
    /\ a.start_line <= b.start_line
    /\ <<a.start_line, a.end_line>> # <<b.start_line, b.end_line>>
    /\ (a.end_line < b.start_line \/ b.end_line <= a.end_line)

\* _extract_symbol_boundaries returns them sorted by start_line (line 331)
SortedSymbolLists(s) ==
    {l \in SeqsUpTo(SymbolsOf(s), MaxSymbols) :
        \A i \in 1..Len(l) : \A j \in (i + 1)..Len(l) : ApartOrNested(l[i], l[j])}

InitCode ==
    /\ op = "chunk_code"
    /\ content \in CodeContents
    /\ provider \in Providers
    /\ symbols \in IF provider = "ok" THEN SortedSymbolLists(content) ELSE {<<>>}
    /\ target_size \in CodeSizes
    /\ min_size \in CodeSizes
    /\ max_size \in CodeSizes
    /\ pc = "start"
    /\ pos = 0
    /\ chunks = <<>>
    /\ ext = ""
    /\ NoProcess
    /\ codemap_used = FALSE
    /\ json_chunked = FALSE
    /\ data = NotJson
    /\ format_type = "none"
    /\ chunking_method = "none"

CodeUnchanged ==
    UNCHANGED <<ProcessVars, BatchVars, op, content, ext, provider, symbols, target_size, min_size, max_size,
                pos, json_chunked, data, format_type, chunking_method>>

\* lines 379-415: no provider, no file, a failed call or no symbols
CodeFallback ==
    /\ op = "chunk_code" /\ pc = "start"
    /\ ~code_uses_provider(provider, symbols)
    /\ chunks' = chunk_text(content, target_size, min_size, max_size)
    /\ codemap_used' = FALSE
    /\ pc' = "done"
    /\ CodeUnchanged

\* lines 417-516
CodeAssemble ==
    /\ op = "chunk_code" /\ pc = "start"
    /\ code_uses_provider(provider, symbols)
    /\ chunks' = code_greedy(content, symbols, target_size, max_size)
    /\ pc' = "assembled"
    /\ UNCHANGED codemap_used
    /\ CodeUnchanged

\* lines 518-529
CodeMerge ==
    /\ op = "chunk_code" /\ pc = "assembled"
    /\ chunks' = merge_trailing(chunks, min_size, max_size)
    /\ pc' = "merged"
    /\ UNCHANGED codemap_used
    /\ CodeUnchanged

\* lines 531-535
CodeReturn ==
    /\ op = "chunk_code" /\ pc = "merged"
    /\ IF chunks = <<>>
       THEN /\ chunks' = chunk_text(content, target_size, min_size, max_size)
            /\ codemap_used' = FALSE
       ELSE /\ codemap_used' = TRUE
            /\ UNCHANGED chunks
    /\ pc' = "done"
    /\ CodeUnchanged

NextCode == CodeFallback \/ CodeAssemble \/ CodeMerge \/ CodeReturn

SpecCode == InitCode /\ [][NextCode]_vars

\* C12: when the provider is unavailable, the path is no existing file, the
\* provider call raises, times out or exits non-zero, or it yields no symbol,
\* _chunk_code returns the chunks of _chunk_text for the same content and
\* sizes, with codemap_used = False.
CodeFallsBack ==
    op = "chunk_code" /\ pc = "done" /\ (provider # "ok" \/ symbols = <<>>) =>
        /\ chunks = chunk_text(content, target_size, min_size, max_size)
        /\ codemap_used = FALSE

\* a returned call whose provider answered without symbols, on content that
\* the text splitter cuts in several chunks
CodeFallsBackWitness ==
    /\ op = "chunk_code" /\ pc = "done"
    /\ provider = "ok" /\ symbols = <<>>
    /\ ~codemap_used
    /\ Len(chunks) >= 2

\* C3: when the symbol provider is used the chunks returned by _chunk_code
\* tile [0, len(content)): first start 0, each start the previous end, last
\* end len(content).
CodeTiling ==
    op = "chunk_code" /\ pc = "done" /\ codemap_used => Tiles(chunks, Len(content))

\* the symbols of this call with their character ranges
SymPos == symbol_positions(content, symbols)

\* C9: when the symbol provider is used, a chunk larger than max_size is one
\* single symbol that is itself larger than max_size.
CodeMaxSize ==
    op = "chunk_code" /\ pc = "done" /\ codemap_used =>
        \A i \in 1..Len(chunks) :
            Size(chunks[i]) > max_size =>
                /\ Len(chunks[i].boundaries) = 1
                /\ \E k \in 1..Len(SymPos) :
                      /\ SymPos[k].start_char = chunks[i].start
                      /\ SymPos[k].end_char = chunks[i].end

RECURSIVE BoundariesBefore(_, _)
\* the number of boundaries listed by the chunks before cs[k]
BoundariesBefore(cs, k) ==
    IF k = 1 THEN 0 ELSE Len(cs[k - 1].boundaries) + BoundariesBefore(cs, k - 1)

\* the chunk that lists the i-th symbol (the symbols are listed in order)
Holder(cs, i) ==
    CHOOSE k \in 1..Len(cs) :
        BoundariesBefore(cs, k) < i /\ i <= BoundariesBefore(cs, k) + Len(cs[k].boundaries)

\* C31: Code split decision. When the provider is used, at each symbol that
\* does not open the first chunk a new chunk is started exactly when, in this
\* order, current size + symbol size > max_size (reason max_size), or current
\* size >= target_size and the kind is function, class, method or impl, or
\* current size >= 1.2 x target_size (reason target_size); otherwise the
\* symbol extends the current chunk and is appended to its boundaries.
CodeSplitDecision ==
    op = "chunk_code" /\ pc = "assembled" =>
      \A i \in 1..Len(SymPos) :
        i > 1 \/ SymPos[1].start_char > 0 =>
          LET cur_start == IF i = 1 THEN 0 ELSE chunks[Holder(chunks, i - 1)].start
              cur_end == IF i = 1 THEN SymPos[1].start_char ELSE SymPos[i - 1].end_char
              current_size == cur_end - cur_start
              combined_size == current_size + (SymPos[i].end_char - SymPos[i].start_char)
              a == combined_size > max_size
              b == current_size >= target_size
                     /\ SymPos[i].kind \in {"function", "class", "method", "impl"}
              c == 5 * current_size >= 6 * target_size
              k == Holder(chunks, i)
              started == k >= 2 /\ BoundariesBefore(chunks, k) = i - 1
          IN /\ started <=> a \/ b \/ c
             /\ started =>
                  /\ chunks[k].start = SymPos[i].start_char
                  /\ a => chunks[k].split_reason = "max_size"
                  /\ ~a /\ ~b => chunks[k].split_reason = "target_size"
             /\ ~started => k = (IF i = 1 THEN 1 ELSE Holder(chunks, i - 1))
             /\ chunks[k].boundaries[i - BoundariesBefore(chunks, k)] = SymbolBoundary(SymPos[i])

\* an assembly that closed one chunk at a function and another for target_size
CodeSplitDecisionWitness ==
    /\ op = "chunk_code" /\ pc = "assembled"
    /\ \E k \in 1..Len(chunks) : chunks[k].split_reason = "target_size"
    /\ \E k \in 1..Len(chunks) : chunks[k].split_reason = "symbol_function"

\* the content before the first symbol / after the last symbol is not empty
HasPreamble == SymPos # <<>> /\ SymPos[1].start_char > 0
HasTrailer == SymPos # <<>> /\ Last(SymPos).end_char < Len(content)

\* the returned chunk that lists the first symbol begins with the preamble
PreambleWithFirst == chunks[Holder(chunks, 1)].start = 0

\* the returned chunk that lists the last symbol ends with the trailer
TrailerWithLast == chunks[Holder(chunks, Len(SymPos))].end = Len(content)

\* the statement of C32: preamble and trailer are always in the chunk of the
\* adjacent symbol
CodePreambleTrailerAlways ==
    op = "chunk_code" /\ pc = "done" /\ codemap_used =>
        /\ HasPreamble => PreambleWithFirst
        /\ HasTrailer => TrailerWithLast

\* the first symbol closes the chunk that holds the preamble (lines 461-478)
PreambleClosed ==
    LET current_size == SymPos[1].start_char
        combined_size == current_size + (SymPos[1].end_char - SymPos[1].start_char)
    IN \/ combined_size > max_size
       \/ current_size >= target_size /\ SymPos[1].kind \in {"function", "class", "method", "impl"}
       \/ 5 * current_size >= 6 * target_size

\* C32 (amended): when the symbol provider is used, the content after the last
\* symbol's end is always in the chunk of the last symbol. The content before
\* the first symbol is in the chunk of the first symbol when no split condition
\* holds at the first symbol for the size of the preamble, or when the trailing
\* merge joins the only two chunks; otherwise it is returned as the first
\* chunk, with reason start and no boundaries.
CodePreambleTrailer ==
    op = "chunk_code" /\ pc = "done" /\ codemap_used =>
        /\ HasTrailer => TrailerWithLast /\ Holder(chunks, Len(SymPos)) = Len(chunks)
        /\ HasPreamble =>
             IF PreambleClosed /\ Len(chunks) > 1
             THEN chunks[1] = Chunk(0, SymPos[1].start_char, "start", <<>>)
             ELSE PreambleWithFirst /\ Holder(chunks, 1) = 1

\* a returned call whose content has a preamble of its own chunk, and a
\* trailer
CodePreambleTrailerWitness ==
    /\ op = "chunk_code" /\ pc = "done" /\ codemap_used
    /\ HasPreamble /\ HasTrailer
    /\ chunks[1].boundaries = <<>>
    /\ Len(chunks) >= 2

----------------------------------------------------------------------------
(* Specification of one _chunk_json call: grouping, then the trailing merge *)

ArrayValues == {JInt(7), JInt(100), JArr(<<JInt(7), JInt(7)>>)}
ObjectValues == {JInt(7), JArr(<<JInt(7), JInt(7)>>)}
KeyNames == <<"a", "b", "c", "d", "e", "f", "g", "h">>
KeyIndex(k) == CHOOSE n \in 1..Len(KeyNames) : <<KeyNames[n]>> = k

\* key lists in which every key repeats an earlier one or is the next unused name
KeyLists ==
    {ks \in SeqsUpTo({<<KeyNames[n]>> : n \in 1..MaxItems}, MaxItems) :
        \A n \in 1..Len(ks) :
            KeyIndex(ks[n]) <= 1 + SetMax({0} \cup {KeyIndex(ks[m]) : m \in 1..(n - 1)})}

\* the documents written in the input: arrays, and objects as lists of pairs
\* (a key may be written twice)
JsonDocs ==
    {JList(vs) : vs \in SeqsUpTo(ArrayValues, MaxItems)}
    \cup UNION {{JDict(ks, vs) : vs \in {w \in SeqsUpTo(ObjectValues, MaxItems) : Len(w) = Len(ks)}} :
                   ks \in KeyLists}

\* the text of a document: minified, pretty-printed, pretty-printed with a final newline
JsonTexts(d) ==
    {json_dumps_compact(d), json_dumps_indent(d), Append(json_dumps_indent(d), NL)}

\* inputs that are not a JSON array or object
JsonBroken ==
    {<<>>, <<" ">>, <<"7">>, <<"x">>, <<"[", "7">>, <<"[", "7", ",", "]">>, <<"{", "7", "}">>}

\* an array holding one number of IntMaxStrDigits + 1 digits
BigNumberDoc == <<"[">> \o [i \in 1..(IntMaxStrDigits + 1) |-> "1"] \o <<"]">>

JsonContents == UNION {JsonTexts(d) : d \in JsonDocs} \cup JsonBroken \cup {BigNumberDoc}
JsonSizes == {1, 8, 16, 30}

\* the budgets tried with s: every combination, one for the overlong number
SizesFor(s, sizes) == IF s = BigNumberDoc THEN {30} ELSE sizes

InitJson ==
    /\ op = "chunk_json"
    /\ content \in JsonContents
    /\ target_size \in SizesFor(content, JsonSizes)
    /\ min_size \in SizesFor(content, JsonSizes)
    /\ max_size \in SizesFor(content, JsonSizes)
    /\ pc = "json_start"
    /\ pos = 0
    /\ chunks = <<>>
    /\ ext = ""
    /\ provider = "unavailable"
    /\ symbols = <<>>
    /\ NoProcess
    /\ codemap_used = FALSE
    /\ json_chunked = FALSE
    /\ data = NotJson
    /\ format_type = "none"
    /\ chunking_method = "none"

\* _chunk_json runs on its own (op = "chunk_json") or inside _smart_chunk_impl
JsonUnchanged ==
    UNCHANGED <<ProcessVars, BatchVars, op, content, ext, provider, symbols, target_size, min_size, max_size,
                pos, codemap_used, format_type, chunking_method>>

\* content parses to the container its first character announces
IsContainer(s, d) == json_container(s) # "" /\ d.ok /\ d.kind = json_container(s)

\* lines 891-897, 1044-1050, 1201-1209: not an array, not an object
JsonReject ==
    /\ pc = "json_start"
    /\ LET d == json_loads(content)
       IN /\ ~IsContainer(content, d)
          /\ json_container(content) = "" \/ d.kind # "raised"
    /\ chunks' = <<>>
    /\ json_chunked' = FALSE
    /\ pc' = "json_done"
    /\ UNCHANGED data
    /\ JsonUnchanged

\* lines 891-897, 1044-1050: data = json.loads(content) is a list / a dict, or
\* the call raises an exception the except clause does not name, which leaves
\* _chunk_json and its caller
JsonParse ==
    /\ pc = "json_start"
    /\ json_container(content) # ""
    /\ LET d == json_loads(content)
       IN /\ d.kind = "raised" \/ IsContainer(content, d)
          /\ data' = IF d.kind = "raised" THEN data ELSE d
          /\ pc' = IF d.kind = "raised" THEN "raised" ELSE "json_parsed"
    /\ UNCHANGED <<chunks, json_chunked>>
    /\ JsonUnchanged

\* lines 899-919, 1052-1075: an empty container, or content of at most max_size
JsonSingle ==
    /\ pc = "json_parsed"
    /\ json_single(content, data, max_size)
    /\ chunks' = <<JsonChunk(data, 0, Len(data.vals), "single_chunk", content)>>
    /\ json_chunked' = TRUE
    /\ pc' = "json_done"
    /\ UNCHANGED data
    /\ JsonUnchanged

\* lines 921-989, 1077-1151
JsonGroup ==
    /\ pc = "json_parsed"
    /\ ~json_single(content, data, max_size)
    /\ chunks' = json_groups(data, 0, <<>>, target_size, max_size)
    /\ pc' = "json_grouped"
    /\ UNCHANGED <<json_chunked, data>>
    /\ JsonUnchanged

\* lines 991-1009, 1153-1173
JsonMerge ==
    /\ pc = "json_grouped"
    /\ chunks' = json_merge(data, chunks, min_size, max_size)
    /\ json_chunked' = TRUE
    /\ pc' = "json_done"
    /\ UNCHANGED data
    /\ JsonUnchanged

NextJson == JsonReject \/ JsonParse \/ JsonSingle \/ JsonGroup \/ JsonMerge

SpecJson == InitJson /\ [][NextJson]_vars

\* a finished call whose last two groups were merged
JsonMergeHappened ==
    /\ op = "chunk_json" /\ pc = "json_done" /\ json_chunked
    /\ ~json_single(content, data, max_size)
    /\ json_merge_wanted(data, json_groups(data, 0, <<>>, target_size, max_size), min_size, max_size)

\* the index ranges of cs, in order, are contiguous and cover [0, n)
RangesTile(cs, kind, n) ==
    /\ Len(cs) >= 1
    /\ Range(cs[1], kind)[1] = 0
    /\ \A i \in 1..(Len(cs) - 1) : Range(cs[i], kind)[2] = Range(cs[i + 1], kind)[1]
    /\ Range(Last(cs), kind)[2] = n
    /\ \A i \in 1..Len(cs) : n > 0 => Range(cs[i], kind)[1] < Range(cs[i], kind)[2]

\* C4: the element_range / key_range values of the chunks of _chunk_json are
\* contiguous and cover [0, itemCount): the first starts at 0, each starts
\* where the previous one ended, the last ends at itemCount, and every range
\* is non-empty unless the container is empty; before and after the merge.
JsonTiling ==
    op = "chunk_json" /\ (pc = "json_grouped" \/ (pc = "json_done" /\ json_chunked)) =>
        RangesTile(chunks, data.kind, Len(data.vals))

\* a finished call with several groups left after a trailing merge
JsonTilingWitness ==
    /\ JsonMergeHappened
    /\ Len(chunks) >= 2

RECURSIVE Reassembled(_, _, _)
\* the items of the parsed payloads of the chunks i.., in order: a document of
\* the container's kind, or NotJson if a payload does not parse to that kind
Reassembled(cs, kind, i) ==
    IF i > Len(cs) THEN Parsed(kind, <<>>, <<>>)
    ELSE LET here == json_loads(cs[i].json_content)
             rest == Reassembled(cs, kind, i + 1)
         IN IF here.ok /\ here.kind = kind /\ rest.ok
            THEN Parsed(kind, here.keys \o rest.keys, here.vals \o rest.vals)
            ELSE NotJson

\* C5: parsing every chunk's json_content and joining the parsed items in
\* index-range order gives the original parsed value: the same elements in the
\* same order, the same key/value pairs in the same key order.
JsonReconstruction ==
    op = "chunk_json" /\ pc = "json_done" /\ json_chunked =>
        Reassembled(chunks, data.kind, 1) = data

\* a finished call on an object holding a nested array, split in several
\* groups, the last two of them merged
JsonReconstructionWitness ==
    /\ JsonMergeHappened
    /\ data.kind = "dict"
    /\ Len(chunks) >= 2
    /\ \E i \in 1..Len(data.vals) : data.vals[i].kind = "arr"

\* C8: a chunk of _chunk_json whose json_content is longer than max_size holds
\* exactly one item; a chunk with no item or with two or more is within max_size.
JsonMaxSize ==
    op = "chunk_json" /\ pc = "json_done" /\ json_chunked =>
        \A i \in 1..Len(chunks) :
            Len(chunks[i].json_content) > max_size =>
                Range(chunks[i], data.kind)[2] - Range(chunks[i], data.kind)[1] = 1

\* the reason recorded for a group that is neither the first nor the last
JsonBoundary(kind) == IF kind = "list" THEN "element_boundary" ELSE "key_boundary"

\* a finished _chunk_json call that returned two or more groups
JsonMultiGroup == op = "chunk_json" /\ pc = "json_done" /\ json_chunked /\ Len(chunks) >= 2

\* the claim of C19 as the specification states it: the last group's reason
\* is end, also after the trailing merge
JsonReasonsAsStated ==
    JsonMultiGroup =>
        /\ chunks[1].split_reason = "start"
        /\ Last(chunks).split_reason = "end"
        /\ \A i \in 2..(Len(chunks) - 1) : chunks[i].split_reason = JsonBoundary(data.kind)

\* C19: JSON split reasons. When _chunk_json returns two or more groups, the
\* first group's reason is start, every group between the first and the last
\* has element_boundary (arrays) or key_boundary (objects), and the last
\* group's reason is end unless the trailing merge removed the original last
\* group: then the last group keeps element_boundary or key_boundary.
JsonReasons ==
    JsonMultiGroup =>
        /\ chunks[1].split_reason = "start"
        /\ Last(chunks).split_reason =
              IF JsonMergeHappened THEN JsonBoundary(data.kind) ELSE "end"
        /\ \A i \in 2..(Len(chunks) - 1) : chunks[i].split_reason = JsonBoundary(data.kind)

\* an object whose last group was merged into the one before it, two groups left
JsonReasonsWitness ==
    /\ JsonMultiGroup
    /\ JsonMergeHappened
    /\ data.kind = "dict"
    /\ Last(chunks).split_reason = "key_boundary"

\* the first and the end index of group k, and its pretty-printed size
GroupFirst(k) == Range(chunks[k], data.kind)[1]
GroupEnd(k) == Range(chunks[k], data.kind)[2]
GroupSize(k) == PrettyLen(data, GroupFirst(k), GroupEnd(k))

\* group k began with fewer items than the estimate: it was shrunk
GroupShrunk(k) ==
    GroupEnd(k) < Min(GroupFirst(k) + per_chunk(data, target_size), Len(data.vals))

\* C33: JSON greedy grouping. Before the trailing merge every group that is
\* not the last has a pretty-printed size >= target_size or cannot take the
\* next item without exceeding max_size; no group of two or more items is
\* larger than max_size, and a group that was shrunk stopped at the first
\* size that fits, or at one item.
JsonGreedyGrouping ==
    op = "chunk_json" /\ pc = "json_grouped" =>
        \A k \in 1..Len(chunks) :
            /\ chunks[k].json_content = json_dumps_indent(SubData(data, GroupFirst(k), GroupEnd(k)))
            /\ k < Len(chunks) =>
                  \/ GroupSize(k) >= target_size
                  \/ PrettyLen(data, GroupFirst(k), GroupEnd(k) + 1) > max_size
            /\ GroupSize(k) <= max_size \/ GroupEnd(k) = GroupFirst(k) + 1
            /\ GroupShrunk(k) => PrettyLen(data, GroupFirst(k), GroupEnd(k) + 1) > max_size

\* a grouping with a group that was shrunk to fit and is below target_size,
\* and a group of one item that is larger than max_size
JsonGreedyGroupingWitness ==
    /\ op = "chunk_json" /\ pc = "json_grouped"
    /\ \E k \in 1..(Len(chunks) - 1) :
          GroupShrunk(k) /\ GroupSize(k) <= max_size
    /\ \E k \in 1..Len(chunks) : GroupSize(k) > max_size

\* min_size <= target_size <= max_size
ValidBudget == min_size <= target_size /\ target_size <= max_size

\* the groups of this call as they were before the trailing merge
GroupsBefore == json_groups(data, 0, <<>>, target_size, max_size)

\* C34: JSON trailing merge. For a valid budget, in the final output with two
\* or more groups the last group's payload is >= min_size or the re-serialized
\* union of the last two groups exceeds max_size; when a merge happened, the
\* merged group's index range, keys list (objects) and json_content describe
\* exactly the union of the two groups' items.
JsonTrailingMerge ==
    op = "chunk_json" /\ pc = "json_done" /\ json_chunked =>
        /\ ValidBudget /\ Len(chunks) >= 2 =>
              \/ Len(Last(chunks).json_content) >= min_size
              \/ PrettyLen(data, GroupFirst(Len(chunks) - 1), GroupEnd(Len(chunks))) > max_size
        /\ JsonMergeHappened =>
              LET n == Len(chunks)
                  parsed == json_loads(chunks[n].json_content)
              IN /\ n = Len(GroupsBefore) - 1
                 /\ GroupFirst(n) = Range(GroupsBefore[n], data.kind)[1]
                 /\ GroupEnd(n) = Range(GroupsBefore[n + 1], data.kind)[2]
                 /\ parsed.ok /\ parsed.kind = data.kind
                 /\ parsed.vals = Slice(data.vals, GroupFirst(n), GroupEnd(n))
                 /\ parsed.keys = Slice(data.keys, GroupFirst(n), GroupEnd(n))
                 /\ data.kind = "dict" => chunks[n].keys = Slice(data.keys, GroupFirst(n), GroupEnd(n))
                 /\ chunks[n].end = Len(chunks[n].json_content)

\* a finished call with a valid budget whose last two groups were merged, with
\* an earlier group left
JsonTrailingMergeWitness ==
    /\ JsonMergeHappened
    /\ ValidBudget
    /\ Len(chunks) >= 2
    /\ min_size > 1

----------------------------------------------------------------------------
(* _detect_format and _smart_chunk_impl *)

\* str.lower() on the suffixes used here
lower(e) ==
    CASE e = ".MD" -> ".md"
      [] e = ".PY" -> ".py"
      [] e = ".JSON" -> ".json"
      [] OTHER -> e

CODE_EXTENSIONS ==
    {".py", ".pyi", ".pyw", ".js", ".jsx", ".mjs", ".cjs", ".ts", ".tsx", ".mts", ".cts",
     ".rs", ".go", ".java", ".c", ".h", ".cc", ".cpp", ".cxx", ".hpp", ".hxx", ".cs",
     ".rb", ".php", ".swift", ".kt", ".kts", ".scala", ".lua", ".sh", ".bash", ".zsh",
     ".pl", ".pm", ".r", ".R", ".sql"}

MARKDOWN_EXTENSIONS == {".md", ".markdown", ".mdx", ".mdown", ".mkd"}

TEXT_EXTENSIONS == {".txt", ".text", ".log"}

\* more header lines than this make content with an unknown suffix markdown
HeaderDensity == 5

\* Where a match of ^#{1,6}\s+\S attempted at line start i ends, -1 if the
\* pattern does not match there
DensityMatchEnd(s, i) ==
    LET k == HashRun(s, i)
        h == i + k
        r == WsEnd(s, h)
    IN IF k < 1 \/ k > 6 \/ r = h \/ r >= Len(s) THEN -1 ELSE r + 1

RECURSIVE header_matches(_, _)
\* len(re.findall(r'^#{1,6}\s+\S', content, re.MULTILINE)), scanning from offset i
header_matches(s, i) ==
    LET cands == {j \in i..(Len(s) - 1) : IsLineStart(s, j) /\ DensityMatchEnd(s, j) # -1}
    IN IF cands = {} THEN 0
       ELSE 1 + header_matches(s, DensityMatchEnd(s, SetMin(cands)))

\* _detect_format(content, context_path), e the suffix of context_path
detect_format(s, e) ==
    IF lower(e) \in MARKDOWN_EXTENSIONS THEN "markdown"
    ELSE IF lower(e) \in CODE_EXTENSIONS THEN "code"
    ELSE IF lower(e) = ".json" THEN "json"
    ELSE IF lower(e) \in TEXT_EXTENSIONS THEN "text"
    ELSE IF header_matches(s, 0) > HeaderDensity THEN "markdown"
    ELSE "text"

----------------------------------------------------------------------------
(* Specification of one _smart_chunk_impl call *)

MaxSmartLines == 2    \* most lines of a markdown document given to _smart_chunk_impl

RECURSIVE HeaderLines(_)
\* n lines "# x" joined by newlines
HeaderLines(n) ==
    IF n = 1 THEN <<"#", " ", "x">> ELSE HeaderLines(n - 1) \o <<NL, "#", " ", "x">>

SmartJsonDocs ==
    {JList(<<>>), JList(<<JInt(7)>>), JList(<<JInt(7), JInt(100)>>),
     JDict(<<<<"a">>>>, <<JInt(7)>>), JDict(<<<<"a">>, <<"b">>>>, <<JInt(7), JArr(<<JInt(7)>>)>>)}

SmartContents ==
    JoinedLines(MaxSmartLines)
    \cup {HeaderLines(HeaderDensity), HeaderLines(HeaderDensity + 1)}
    \cup {json_dumps_compact(d) : d \in SmartJsonDocs}
    \cup {json_dumps_indent(d) : d \in SmartJsonDocs}
    \cup {<<"[", "7">>}

Exts == {".md", ".MD", ".py", ".json", ".txt", ""}
SmartSizes == {1, 4, 30}

\* what the provider may return for s: any sorted list for a file of at most
\* two lines, at most one symbol for a longer file
SmartSymbolLists(s) ==
    IF CountNL(s, Len(s)) <= 1 THEN SortedSymbolLists(s)
    ELSE {<<>>} \cup {<<sym>> : sym \in SymbolsOf(s)}

InitSmart ==
    /\ op = "smart_chunk"
    /\ content \in SmartContents \cup {BigNumberDoc}
    /\ ext \in IF content = BigNumberDoc THEN {".json"} ELSE Exts
    /\ provider \in IF lower(ext) \in CODE_EXTENSIONS THEN Providers ELSE {"unavailable"}
    /\ symbols \in IF provider = "ok" THEN SmartSymbolLists(content) ELSE {<<>>}
    /\ target_size \in SizesFor(content, SmartSizes)
    /\ min_size \in {m \in SmartSizes : m <= target_size}
    /\ max_size \in {m \in SmartSizes : m >= target_size}
    /\ pc = "start"
    /\ pos = 0
    /\ chunks = <<>>
    /\ NoProcess
    /\ codemap_used = FALSE
    /\ json_chunked = FALSE
    /\ data = NotJson
    /\ format_type = "none"
    /\ chunking_method = "none"

SmartUnchanged ==
    UNCHANGED <<ProcessVars, BatchVars, op, content, ext, provider, symbols, target_size, min_size, max_size, pos>>

\* line 1237
SmartDetect ==
    /\ op = "smart_chunk" /\ pc = "start"
    /\ format_type' = detect_format(content, ext)
    /\ pc' = "detected"
    /\ UNCHANGED <<chunks, codemap_used, json_chunked, data, chunking_method>>
    /\ SmartUnchanged

\* lines 1246-1248
SmartMarkdown ==
    /\ op = "smart_chunk" /\ pc = "detected"
    /\ format_type = "markdown"
    /\ chunks' = chunk_markdown(content, target_size, min_size, max_size)
    /\ chunking_method' = "smart_markdown"
    /\ pc' = "done"
    /\ UNCHANGED <<codemap_used, json_chunked, data, format_type>>
    /\ SmartUnchanged

\* lines 1249-1254
SmartCode ==
    /\ op = "smart_chunk" /\ pc = "detected"
    /\ format_type = "code"
    /\ LET r == chunk_code(content, provider, symbols, target_size, min_size, max_size)
       IN /\ chunks' = r.chunks
          /\ codemap_used' = r.codemap_used
          /\ chunking_method' = IF r.codemap_used THEN "smart_code" ELSE "smart_text"
    /\ pc' = "done"
    /\ UNCHANGED <<json_chunked, data, format_type>>
    /\ SmartUnchanged

\* lines 1255-1258: the call of _chunk_json, taken up by JsonReject and JsonParse
SmartJson ==
    /\ op = "smart_chunk" /\ pc = "detected"
    /\ format_type = "json"
    /\ pc' = "json_start"
    /\ UNCHANGED <<chunks, codemap_used, json_chunked, data, format_type, chunking_method>>
    /\ SmartUnchanged

\* lines 1259-1263: _chunk_json has returned
SmartJsonReturn ==
    /\ op = "smart_chunk" /\ pc = "json_done"
    /\ chunks' = IF json_chunked THEN chunks
                 ELSE chunk_text(content, target_size, min_size, max_size)
    /\ chunking_method' = IF json_chunked THEN "smart_json" ELSE "smart_text"
    /\ pc' = "done"
    /\ UNCHANGED <<codemap_used, json_chunked, data, format_type>>
    /\ SmartUnchanged

\* lines 1264-1267
SmartText ==
    /\ op = "smart_chunk" /\ pc = "detected"
    /\ format_type = "text"
    /\ chunks' = chunk_text(content, target_size, min_size, max_size)
    /\ chunking_method' = "smart_text"
    /\ pc' = "done"
    /\ UNCHANGED <<codemap_used, json_chunked, data, format_type>>
    /\ SmartUnchanged

NextSmart ==
    \/ SmartDetect \/ SmartMarkdown \/ SmartCode \/ SmartText
    \/ SmartJson \/ JsonReject \/ JsonParse \/ JsonSingle \/ JsonGroup \/ JsonMerge \/ SmartJsonReturn

SpecSmart == InitSmart /\ [][NextSmart]_vars

\* the call has returned and the whole content fits in max_size
SmartSmall == op = "smart_chunk" /\ pc = "done" /\ Len(content) <= max_size

\* the chunks come from the heading assembly or from the symbol assembly
SmartAssembled ==
    \/ format_type = "markdown" /\ find_header_boundaries(content) # <<>>
    \/ format_type = "code" /\ codemap_used

\* the statement of C10 as written: whenever len(content) <= max_size the call
\* returns exactly one chunk, and its split_reason is single_chunk.
ShortcutEveryFormat ==
    SmartSmall => Len(chunks) = 1 /\ chunks[1].split_reason = "single_chunk"

\* C10: when len(content) <= max_size, the call returns exactly one chunk with
\* split_reason single_chunk if the text splitter or the JSON chunker produced
\* the chunks (text; markdown without a heading; code without provider
\* symbols; json, parsed or not); markdown with a heading and code chunked
\* from provider symbols have no shortcut, and their first chunk's
\* split_reason is start.
ShortcutTextAndJson ==
    SmartSmall =>
        IF SmartAssembled
        THEN Len(chunks) >= 1 /\ chunks[1].split_reason = "start"
        ELSE Len(chunks) = 1 /\ chunks[1].split_reason = "single_chunk"

\* a JSON document longer than target_size, within max_size, returned whole
ShortcutWitness ==
    /\ SmartSmall
    /\ format_type = "json" /\ json_chunked
    /\ Len(data.vals) >= 2
    /\ Len(content) > target_size
    /\ Len(chunks) = 1 /\ chunks[1].split_reason = "single_chunk"

\* line 1276: the suffix of every chunk file written for the call
chunk_file_suffix == IF json_chunked THEN ".json" ELSE ".txt"

\* C13: JSON fallback. Whenever content detected as json does not parse to an
\* array or an object, the call returns: it produces the text splitter's
\* chunks, json_chunked is false, chunking_method is smart_text, the chunk
\* files end in .txt, and no error reaches the caller.
JsonFallback ==
    op = "smart_chunk" /\ format_type = "json" /\ pc \in {"done", "raised"} /\ ~data.ok =>
        /\ pc = "done"
        /\ ~json_chunked
        /\ chunking_method = "smart_text"
        /\ chunk_file_suffix = ".txt"
        /\ chunks = chunk_text(content, target_size, min_size, max_size)

\* the chunks of a finished call came from the text splitter although the
\* detected format has a structural splitter
SmartFellBack ==
    \/ format_type = "code" /\ ~code_uses_provider(provider, symbols)
    \/ format_type = "json" /\ ~data.ok
    \/ format_type = "markdown" /\ find_header_boundaries(content) = <<>>

\* C14: Reported method. chunking_method is smart_text whenever a fallback to
\* the text splitter occurred (code without a usable provider, JSON that failed
\* to parse, markdown without a heading); smart_markdown, smart_code and
\* smart_json are reported only when that structural splitter made the chunks.
ReportedMethod ==
    op = "smart_chunk" /\ pc = "done" =>
        /\ SmartFellBack => chunking_method = "smart_text"
        /\ chunking_method = "smart_markdown" =>
              format_type = "markdown" /\ find_header_boundaries(content) # <<>>
        /\ chunking_method = "smart_code" => format_type = "code" /\ codemap_used
        /\ chunking_method = "smart_json" => format_type = "json" /\ json_chunked

----------------------------------------------------------------------------
(* A process making several chunking calls: _detect_codemap and its cache *)

MaxCalls == 3    \* most chunking calls of one process

\* variant: every call probes the environment, no cache
detect_codemap_uncached(c, inst) == IF inst THEN "codemap" ELSE ""

\* _detect_codemap() with cache c where a probe would answer inst: the command,
\* or "" for None (lines 226-271)
detect_codemap(c, inst) ==
    IF c # "None" THEN (IF c = "False" THEN "" ELSE c)
    ELSE IF inst THEN "codemap" ELSE ""

\* variant of detect_codemap_cache: only a provider that was found is remembered
detect_codemap_cache_found(c, inst) ==
    IF c # "None" THEN c
    ELSE IF inst THEN "codemap" ELSE "None"

\* _CODEMAP_CACHE after _detect_codemap()
detect_codemap_cache(c, inst) ==
    IF c # "None" THEN c
    ELSE IF inst THEN "codemap" ELSE "False"

\* does _detect_codemap() with cache c start a probe subprocess? (lines 230-231
\* return before lines 246 and 259)
detect_codemap_probes(c) == c = "None"

\* content, path suffix and <<target_size, min_size, max_size>> of the calls a
\* process makes
ProcFiles ==
    {<<<<"x", NL, "x">>, ".py", <<1, 1, 1>>>>,
     <<<<"x", NL, "x">>, "", <<1, 1, 1>>>>,
     <<<<"#", " ", "x", NL, "x">>, ".md", <<1, 1, 1>>>>,
     <<json_dumps_compact(JList(<<JInt(7), JInt(100)>>)), ".json", <<1, 1, 1>>>>,
     <<json_dumps_compact(JList(<<JInt(7), JInt(100)>>)), ".json", <<4, 1, 30>>>>,
     <<<<"[", "7">>, ".json", <<1, 1, 1>>>>}

\* what the provider answers when it is run on a file: a failure, or symbols
ProcResponses(s, e) ==
    IF lower(e) \in CODE_EXTENSIONS
    THEN {[outcome |-> "error", symbols |-> <<>>], [outcome |-> "ok", symbols |-> <<>>]}
         \cup {[outcome |-> "ok", symbols |-> <<sym>>] :
                 sym \in {y \in SymbolsOf(s) : y.kind = "function" /\ y.end_line = 1}}
    ELSE {[outcome |-> "unavailable", symbols |-> <<>>]}

InitProcess ==
    /\ op = "smart_chunk"
    /\ pc = "idle"
    /\ CODEMAP_CACHE = "None"
    /\ installed \in BOOLEAN
    /\ calls = <<>>
    /\ NoBatch
    /\ content = <<>>
    /\ ext = ""
    /\ provider = "unavailable"
    /\ symbols = <<>>
    /\ target_size = 1 /\ min_size = 1 /\ max_size = 1
    /\ pos = 0
    /\ chunks = <<>>
    /\ codemap_used = FALSE
    /\ json_chunked = FALSE
    /\ data = NotJson
    /\ format_type = "none"
    /\ chunking_method = "none"

\* the provider is installed or removed while no call runs
EnvChange ==
    /\ op = "smart_chunk" /\ pc = "idle"
    /\ installed' = ~installed
    /\ UNCHANGED <<op, content, ext, provider, symbols, target_size, min_size, max_size,
                   pc, pos, chunks, codemap_used, json_chunked, data, format_type,
                   chunking_method, CODEMAP_CACHE, calls, BatchVars>>

\* the manifest of a call that has not returned
NoManifest ==
    [format |-> "none", chunking_method |-> "none", codemap_available |-> FALSE,
     codemap_used |-> FALSE, json_chunked |-> FALSE, chunks |-> <<>>]

\* a call of _smart_chunk_impl begins; its _detect_codemap() (line 379 for code,
\* line 1330 for every format) fills the cache
ProcCall ==
    /\ op = "smart_chunk" /\ pc = "idle"
    /\ Len(calls) < MaxCalls
    /\ \E f \in ProcFiles :
         \E r \in ProcResponses(f[1], f[2]) :
            LET cmd == detect_codemap(CODEMAP_CACHE, installed)
                z == f[3]
            IN /\ content' = f[1]
               /\ ext' = f[2]
               /\ target_size' = z[1] /\ min_size' = z[2] /\ max_size' = z[3]
               /\ provider' = IF cmd = "" THEN "unavailable" ELSE r.outcome
               /\ symbols' = IF cmd = "" THEN <<>> ELSE r.symbols
               /\ CODEMAP_CACHE' = detect_codemap_cache(CODEMAP_CACHE, installed)
               /\ calls' = Append(calls, [content |-> f[1], ext |-> f[2], sizes |-> z,
                                          response |-> r, returned |-> FALSE,
                                          codemap_cmd |-> cmd,
                                          probed |-> detect_codemap_probes(CODEMAP_CACHE),
                                          result |-> NoManifest])
    /\ pc' = "start"
    /\ pos' = 0
    /\ chunks' = <<>>
    /\ codemap_used' = FALSE
    /\ json_chunked' = FALSE
    /\ data' = NotJson
    /\ format_type' = "none"
    /\ chunking_method' = "none"
    /\ UNCHANGED <<op, installed, BatchVars>>

\* lines 1326-1347: the manifest of the call
Manifest ==
    [format |-> format_type, chunking_method |-> chunking_method,
     codemap_available |-> detect_codemap(CODEMAP_CACHE, installed) # "",
     codemap_used |-> codemap_used, json_chunked |-> json_chunked,
     chunks |-> chunks]

\* the call returns
ProcReturn ==
    /\ op = "smart_chunk" /\ pc = "done"
    /\ calls # <<>> /\ ~calls[Len(calls)].returned
    /\ calls' = [calls EXCEPT ![Len(calls)].result = Manifest,
                              ![Len(calls)].returned = TRUE]
    /\ pc' = "idle"
    /\ UNCHANGED <<op, content, ext, provider, symbols, target_size, min_size, max_size,
                   pos, chunks, codemap_used, json_chunked, data, format_type,
                   chunking_method, CODEMAP_CACHE, installed, BatchVars>>

NextProcess ==
    \/ EnvChange \/ ProcCall \/ ProcReturn
    \/ SmartDetect \/ SmartMarkdown \/ SmartCode \/ SmartText
    \/ SmartJson \/ JsonReject \/ JsonParse \/ JsonSingle \/ JsonGroup \/ JsonMerge
    \/ SmartJsonReturn

SpecProcess == InitProcess /\ [][NextProcess]_vars

\* calls i and j were given the same content, path, sizes and provider answer
SameCall(i, j) ==
    /\ calls[i].content = calls[j].content /\ calls[i].ext = calls[j].ext
    /\ calls[i].sizes = calls[j].sizes /\ calls[i].response = calls[j].response

Returned(i) == calls[i].returned

\* C15: Determinism. Two calls of one process with identical content, path
\* hint, size budget and provider response return identical chunks and
\* manifests, whatever calls ran before them.
Determinism ==
    \A i \in 1..Len(calls) : \A j \in 1..Len(calls) :
        SameCall(i, j) /\ Returned(i) /\ Returned(j) => calls[i].result = calls[j].result

\* the first and the third call are the same call of a code file, chunked from
\* the provider's symbols, with another call between them and the provider
\* gone from the environment by the end
DeterminismWitness ==
    /\ Len(calls) = 3 /\ Returned(3)
    /\ SameCall(1, 3) /\ ~SameCall(1, 2)
    /\ calls[1].result.codemap_used
    /\ ~installed

\* C36: Provider-availability cache. After the first call of _detect_codemap
\* in a process has returned, every later call returns the same answer and
\* starts no probe subprocess, and the cached flag is never changed again by
\* any chunking call.
CacheIsFinal ==
    calls # <<>> =>
        /\ CODEMAP_CACHE = (IF calls[1].codemap_cmd = "" THEN "False" ELSE calls[1].codemap_cmd)
        /\ \A i \in 2..Len(calls) :
              /\ calls[i].codemap_cmd = calls[1].codemap_cmd
              /\ ~calls[i].probed
        /\ \A i \in 1..Len(calls) :
              Returned(i) => calls[i].result.codemap_available = (calls[1].codemap_cmd # "")

\* the first call found no provider; the provider was installed afterwards and
\* two more calls have been made, the last one returned
CacheIsFinalWitness ==
    /\ Len(calls) = 3 /\ Returned(3)
    /\ calls[1].probed /\ calls[1].codemap_cmd = ""
    /\ installed
    /\ lower(calls[3].ext) \in CODE_EXTENSIONS

----------------------------------------------------------------------------
(* smart_chunk called with a misused size budget *)

\* a non-positive size, or min_size > max_size
BudgetMisused(target, min, max) == target <= 0 \/ min <= 0 \/ max <= 0 \/ min > max

MisuseSizes == {0, 1, 4}

InitMisuse ==
    /\ op = "smart_chunk"
    /\ content \in SmartContents
    /\ ext \in Exts
    /\ provider \in IF lower(ext) \in CODE_EXTENSIONS THEN Providers ELSE {"unavailable"}
    /\ symbols \in IF provider = "ok" THEN SmartSymbolLists(content) ELSE {<<>>}
    /\ target_size \in MisuseSizes
    /\ min_size \in MisuseSizes
    /\ max_size \in MisuseSizes \ {0}
    /\ BudgetMisused(target_size, min_size, max_size)
    /\ pc = "start"
    /\ pos = 0
    /\ chunks = <<>>
    /\ NoProcess
    /\ codemap_used = FALSE
    /\ json_chunked = FALSE
    /\ data = NotJson
    /\ format_type = "none"
    /\ chunking_method = "none"

SpecMisuse == InitMisuse /\ [][NextSmart]_vars

\* C16: Parameter validation. A call whose size budget is misused is rejected
\* at the orchestrator boundary: no format detection, no splitter and no
\* manifest follows it.
ValidationRejects ==
    op = "smart_chunk" /\ BudgetMisused(target_size, min_size, max_size) =>
        /\ pc = "start"
        /\ chunks = <<>>
        /\ format_type = "none"
        /\ chunking_method = "none"

----------------------------------------------------------------------------
(* Split reasons recorded by _chunk_text *)

WhitespaceFree(s) == \A i \in 1..Len(s) : ~IsSpace(s[i])

\* a finished _chunk_text call that returned two or more chunks
TextMultiChunk == op = "chunk_text" /\ pc = "done" /\ Len(chunks) >= 2

\* the claim of C18 as the specification states it: every chunk but the last
\* of a whitespace-free content is a hard_split of exactly max_size, the last
\* is end, and start is no recorded reason
TextReasonsAsStated ==
    TextMultiChunk =>
        /\ \A i \in 1..Len(chunks) :
              chunks[i].split_reason \in {"paragraph", "line", "word", "hard_split", "end"}
        /\ WhitespaceFree(content) /\ target_size < max_size =>
              /\ \A i \in 1..(Len(chunks) - 1) :
                    chunks[i].split_reason = "hard_split" /\ Size(chunks[i]) = max_size
              /\ Last(chunks).split_reason = "end"

\* C18: Text split reasons. In a multi-chunk result the first chunk has reason
\* start, the last has end and every chunk between them has paragraph, line,
\* word or hard_split; for whitespace-free content (target_size < max_size)
\* every chunk but the last is exactly max_size long and every chunk between
\* the first and the last has hard_split.
TextReasons ==
    TextMultiChunk =>
        /\ chunks[1].split_reason = "start"
        /\ Last(chunks).split_reason = "end"
        /\ \A i \in 2..(Len(chunks) - 1) :
              chunks[i].split_reason \in {"paragraph", "line", "word", "hard_split"}
        /\ WhitespaceFree(content) /\ target_size < max_size =>
              \A i \in 1..(Len(chunks) - 1) :
                  /\ Size(chunks[i]) = max_size
                  /\ i >= 2 => chunks[i].split_reason = "hard_split"

\* whitespace-free content cut into three or more chunks
TextReasonsWitness ==
    /\ TextMultiChunk
    /\ WhitespaceFree(content) /\ target_size < max_size
    /\ Len(chunks) >= 3
    /\ chunks[2].split_reason = "hard_split"

\* the offsets of the window [p + target_size, p + max_size)
Window(p) == (p + target_size)..(p + max_size - 1)

\* the offsets of the window at which two newlines inside the window begin
ParagraphsIn(p) ==
    {i \in Window(p) : i + 1 \in Window(p) /\ At(content, i) = NL /\ At(content, i + 1) = NL}
NewlinesIn(p) == {i \in Window(p) : At(content, i) = NL}
SpacesIn(p) == {i \in Window(p) : IsSpace(At(content, i))}

\* e is the end of the run of newlines that begins at i, cut at the window's end
EndOfBreak(p, i, e) ==
    /\ e >= i + 2 /\ e <= p + max_size
    /\ \A j \in i..(e - 1) : At(content, j) = NL
    /\ e = p + max_size \/ At(content, e) # NL

\* the split position the priority rule fixes for a chunk that begins at p
SplitAsStated(p, e) ==
    IF ParagraphsIn(p) # {} THEN EndOfBreak(p, SetMin(ParagraphsIn(p)), e)
    ELSE IF NewlinesIn(p) # {} THEN e = SetMin(NewlinesIn(p)) + 1
    ELSE IF SpacesIn(p) # {} THEN e = SetMin(SpacesIn(p)) + 1
    ELSE e = p + max_size

\* C35: Text split priority. When more than max_size characters remain,
\* _chunk_text splits at the end of the first paragraph break in the window
\* [pos + target_size, pos + max_size) if there is one, else just after the
\* first newline in the window, else just after the first whitespace
\* character in the window, else exactly at pos + max_size.
TextSplitPriority ==
    [][op = "chunk_text" /\ pc = "loop" /\ Len(content) - pos > max_size =>
          /\ Len(chunks') = Len(chunks) + 1
          /\ Last(chunks').start = pos
          /\ Last(chunks').end = pos'
          /\ SplitAsStated(pos, pos')]_vars

\* a chunk cut at a paragraph break that follows an earlier whitespace
\* character of the window
TextSplitPriorityWitness ==
    /\ op = "chunk_text" /\ pc \in {"loop", "done"}
    /\ \E k \in 1..(Len(chunks) - 1) :
          /\ ParagraphsIn(chunks[k].start) # {}
          /\ SetMin(SpacesIn(chunks[k].start)) < SetMin(ParagraphsIn(chunks[k].start))
          /\ chunks[k].end = SetMin(ParagraphsIn(chunks[k].start)) + 2

\* the statement of C40: every chunk but the last has at least
\* min(target_size + 1, max_size) characters and at least target_size
TextMinLengthAsStated ==
    op = "chunk_text" /\ pc = "done" /\ Len(content) > max_size =>
        \A k \in 1..(Len(chunks) - 1) :
            /\ Size(chunks[k]) >= Min(target_size + 1, max_size)
            /\ Size(chunks[k]) >= target_size

\* C40 (amended): for any content longer than max_size and any positive sizes
\* every chunk returned by _chunk_text except the last has at least
\* min(target_size + 1, max_size) characters; with target_size <= max_size
\* only the last chunk can be shorter than target_size, with target_size >
\* max_size every chunk but the last has exactly max_size characters.
TextMinLength ==
    op = "chunk_text" /\ pc = "done" /\ Len(content) > max_size =>
        \A k \in 1..(Len(chunks) - 1) :
            /\ Size(chunks[k]) >= Min(target_size + 1, max_size)
            /\ target_size <= max_size => Size(chunks[k]) >= target_size
            /\ target_size > max_size => Size(chunks[k]) = max_size

\* a finished split with a chunk of exactly target_size + 1 characters, below
\* max_size, before the last chunk
TextMinLengthWitness ==
    /\ op = "chunk_text" /\ pc = "done" /\ Len(content) > max_size
    /\ \E k \in 1..(Len(chunks) - 1) :
          Size(chunks[k]) = target_size + 1 /\ target_size + 1 < max_size

----------------------------------------------------------------------------
(* _chunk_text called with any non-negative size budget *)

MaxAnyLen == 4    \* longest content given to _chunk_text with an arbitrary budget

AnySizes == 0..MaxTextSize

InitTextAny ==
    /\ op = "chunk_text"
    /\ content \in SeqsUpTo(TextChars, MaxAnyLen)
    /\ target_size \in AnySizes
    /\ min_size \in AnySizes
    /\ max_size \in AnySizes
    /\ pc = "start"
    /\ pos = 0
    /\ chunks = <<>>
    /\ NoCall

\* line 845: chunks.append(...) when the list has outgrown memory, which here
\* holds one chunk more than the content has characters: MemoryError ends the
\* call
TextExhaust ==
    /\ op = "chunk_text" /\ pc = "loop"
    /\ Len(chunks) > Len(content)
    /\ pc' = "raised"
    /\ UNCHANGED <<ProcessVars, BatchVars, op, content, ext, provider, symbols, target_size,
                   min_size, max_size, pos, chunks, codemap_used, json_chunked, data,
                   format_type, chunking_method>>

NextTextAny == TextEnter \/ TextIterate \/ TextExhaust

SpecTextAny == InitTextAny /\ [][NextTextAny]_vars

\* the call keeps running until it returns or raises
SpecTextAnyFair == SpecTextAny /\ WF_vars(NextTextAny)

\* C17: No fatal condition. For every content and every size budget, misused
\* budgets included, the call terminates and returns a chunk list that covers
\* the whole content.
NoFatalCondition ==
    <>(op = "chunk_text" /\ pc = "done" /\ Tiles(chunks, Len(content)))

----------------------------------------------------------------------------
(* _llm_query_batch_impl: concurrent workers, one per prompt *)

MaxPrompts == 2    \* most prompts of a batch
MaxRetries == 2    \* largest max_retries
MaxWorkers == 2    \* largest concurrency

PromptNames == {"p", "q"}

\* results[i] before the worker's tuple is stored: None
NoResponse == [prompt |-> "", attempt |-> 0, ok |-> FALSE]

\* what the sub-agent answers to prompt pr at attempt k; ~ok is an "[ERROR: ..." string
Response(pr, k, ok) == [prompt |-> pr, attempt |-> k, ok |-> ok]

\* failure_info of a call that returned a response: None
NoFailure == [reason |-> "None", attempts |-> 0, error |-> NoResponse]

\* lines 1600-1604: failure_info of a call whose attempts all failed
failure_info(last_error) ==
    [reason |-> "max_retries_exhausted", attempts |-> max_retries, error |-> last_error]

\* executor.submit(execute_with_retry, i, prompt) (lines 1609-1612)
Future(i, pr) ==
    [index |-> i, prompt |-> pr, pc |-> "queued", attempt |-> 0, errors |-> 0,
     response |-> NoResponse, failure |-> NoFailure]

InitBatch ==
    /\ op = "llm_query_batch"
    /\ prompts \in SeqsUpTo(PromptNames, MaxPrompts)
    /\ max_retries \in 1..MaxRetries
    /\ concurrency \in 1..MaxWorkers
    /\ effective_concurrency = Min(concurrency, 5)
    /\ cleanup \in BOOLEAN
    /\ futures = [i \in 1..Len(prompts) |-> Future(i, prompts[i])]
    /\ results = [i \in 1..Len(prompts) |-> NoResponse]
    /\ failures = <<>>
    /\ sub_session_dirs = {}
    /\ depth_dir = FALSE
    /\ semaphore = 5
    /\ queries = <<>>
    /\ spawns = <<>>
    /\ session = <<>>
    /\ pc = "collect"
    /\ CODEMAP_CACHE = "None" /\ installed = FALSE /\ calls = <<>>
    /\ content = <<>>
    /\ ext = ""
    /\ provider = "unavailable"
    /\ symbols = <<>>
    /\ target_size = 1 /\ min_size = 1 /\ max_size = 1
    /\ pos = 0
    /\ chunks = <<>>
    /\ codemap_used = FALSE
    /\ json_chunked = FALSE
    /\ data = NotJson
    /\ format_type = "none"
    /\ chunking_method = "none"

BatchUnchanged ==
    UNCHANGED <<ProcessVars, op, content, ext, provider, symbols, target_size, min_size,
                max_size, pos, chunks, codemap_used, json_chunked, data, format_type,
                chunking_method, prompts, max_retries, effective_concurrency, cleanup,
                concurrency, spawns, session>>

\* the threads of the executor work while the caller collects (lines
\* 1614-1618) and while the executor shuts down (end of the with block of
\* line 1608, which waits for every submitted call)
Running == op = "llm_query_batch" /\ pc \in {"collect", "shutdown"}

\* the calls of the batch that are inside _spawn_sub_agent
Active == {i \in 1..Len(futures) : futures[i].pc \in {"run", "rmtree", "check", "rmdir"}}

\* a call that gives up after its first error
AfterAttemptOnce(f) ==
    IF f.response.ok THEN [f EXCEPT !.pc = "finished"]
    ELSE [f EXCEPT !.pc = "finished", !.failure = failure_info(f.response)]

\* lines 1593-1605 of execute_with_retry: after an attempt, return the
\* response, try again, or return the last error with failure_info
AfterAttempt(f) ==
    IF f.response.ok THEN [f EXCEPT !.pc = "finished"]
    ELSE IF f.attempt < max_retries THEN [f EXCEPT !.pc = "backoff"]
    ELSE [f EXCEPT !.pc = "finished", !.failure = failure_info(f.response)]

\* the calls of the batch that occupy a thread of the executor
Busy ==
    {i \in 1..Len(futures) :
        futures[i].pc \in {"mkdir", "run", "rmtree", "check", "rmdir", "log", "backoff"}}

\* a thread of the executor takes the next queued call (submission order)
WorkerStart ==
    \E i \in 1..Len(futures) :
      /\ Running
      /\ futures[i].pc = "queued"
      /\ \A j \in 1..(i - 1) : futures[j].pc # "queued"
      /\ Cardinality(Busy) < effective_concurrency
      /\ futures' = [futures EXCEPT ![i].pc = "mkdir"]
      /\ UNCHANGED <<pc, results, failures, sub_session_dirs, depth_dir, semaphore, queries>>
      /\ BatchUnchanged

\* a semaphore that never blocks
acquire_free(value) == TRUE

\* line 1574: `with _GLOBAL_CONCURRENCY_SEMAPHORE` blocks until a permit is left
acquire(value) == value > 0

\* a with block that keeps its permit when the spawn raises
with_exit_on_return(value, raised) == IF raised THEN value ELSE value + 1

\* lines 1574-1580, 2109-2115: the with block is left, by the return of
\* _spawn_sub_agent or by what it raised, and the permit is given back
with_exit(value, raised) == value + 1

\* line 1574 and _spawn_sub_agent, line 1429: the call takes a permit and
\* enters _spawn_sub_agent, sub_session_dir.mkdir(parents=True)
WorkerMkdir ==
    \E i \in 1..Len(futures) :
      /\ Running
      /\ futures[i].pc = "mkdir"
      /\ acquire(semaphore)
      /\ semaphore' = semaphore - 1
      /\ futures' = [futures EXCEPT ![i].pc = "run", ![i].attempt = @ + 1]
      /\ sub_session_dirs' = sub_session_dirs \cup {i}
      /\ depth_dir' = TRUE
      /\ UNCHANGED <<pc, results, failures, queries>>
      /\ BatchUnchanged

\* _spawn_sub_agent, lines 1451-1513: the sub-agent runs and answers or fails
WorkerRun ==
    \E i \in 1..Len(futures) :
      /\ Running
      /\ futures[i].pc = "run"
      /\ \E ok \in BOOLEAN :
           LET f == [futures[i] EXCEPT !.response = Response(futures[i].prompt, futures[i].attempt, ok),
                                       !.errors = IF ok THEN @ ELSE @ + 1]
           IN futures' = [futures EXCEPT ![i] = IF cleanup THEN [f EXCEPT !.pc = "rmtree"]
                                                  ELSE [f EXCEPT !.pc = "log"]]
      /\ semaphore' = IF cleanup THEN semaphore ELSE with_exit(semaphore, FALSE)
      /\ UNCHANGED <<pc, results, failures, sub_session_dirs, depth_dir, queries>>
      /\ BatchUnchanged

\* _spawn_sub_agent, lines 1516-1517: shutil.rmtree(sub_session_dir)
WorkerRmtree ==
    \E i \in 1..Len(futures) :
      /\ Running
      /\ futures[i].pc = "rmtree"
      /\ sub_session_dirs' = sub_session_dirs \ {i}
      /\ futures' = [futures EXCEPT ![i].pc = "check"]
      /\ UNCHANGED <<pc, results, failures, depth_dir, semaphore, queries>>
      /\ BatchUnchanged

\* _spawn_sub_agent, line 1520: depth_dir.exists() and not any(depth_dir.iterdir())
WorkerCheck ==
    \E i \in 1..Len(futures) :
      /\ Running
      /\ futures[i].pc = "check"
      /\ futures' = [futures EXCEPT ![i] = IF depth_dir /\ sub_session_dirs = {}
                                           THEN [@ EXCEPT !.pc = "rmdir"]
                                           ELSE [@ EXCEPT !.pc = "log"]]
      /\ semaphore' = IF depth_dir /\ sub_session_dirs = {} THEN semaphore
                      ELSE with_exit(semaphore, FALSE)
      /\ UNCHANGED <<pc, results, failures, sub_session_dirs, depth_dir, queries>>
      /\ BatchUnchanged

\* _spawn_sub_agent, line 1521: depth_dir.rmdir() raises OSError when the
\* directory is gone or no longer empty
WorkerRmdir ==
    \E i \in 1..Len(futures) :
      /\ Running
      /\ futures[i].pc = "rmdir"
      /\ IF depth_dir /\ sub_session_dirs = {}
         THEN /\ depth_dir' = FALSE
              /\ futures' = [futures EXCEPT ![i].pc = "log"]
              /\ semaphore' = with_exit(semaphore, FALSE)
         ELSE /\ futures' = [futures EXCEPT ![i].pc = "raised"]
              /\ UNCHANGED depth_dir
              /\ semaphore' = with_exit(semaphore, TRUE)
      /\ UNCHANGED <<pc, results, failures, sub_session_dirs, queries>>
      /\ BatchUnchanged

\* lines 1582-1605: outside the with block the call writes its batch entry
\* to the query log, then returns the response, goes on to another attempt,
\* or returns the last error with failure_info
WorkerLog ==
    \E i \in 1..Len(futures) :
      /\ Running
      /\ futures[i].pc = "log"
      /\ futures' = [futures EXCEPT ![i] = AfterAttempt(@)]
      /\ UNCHANGED <<pc, results, failures, sub_session_dirs, depth_dir, semaphore, queries>>
      /\ BatchUnchanged

\* lines 1568-1571: time.sleep(backoff) before an attempt that is not the first
WorkerBackoff ==
    \E i \in 1..Len(futures) :
      /\ Running
      /\ futures[i].pc = "backoff"
      /\ futures' = [futures EXCEPT ![i].pc = "mkdir"]
      /\ UNCHANGED <<pc, results, failures, sub_session_dirs, depth_dir, semaphore, queries>>
      /\ BatchUnchanged

\* lines 1614-1618: as_completed yields a future whose call returned
Collect ==
    \E i \in 1..Len(futures) :
      /\ op = "llm_query_batch" /\ pc = "collect"
      /\ futures[i].pc = "finished"
      /\ results' = [results EXCEPT ![futures[i].index] = futures[i].response]
      /\ failures' = IF futures[i].failure # NoFailure
                      THEN [j \in DOMAIN failures \cup {futures[i].index} |->
                               IF j = futures[i].index THEN futures[i].failure ELSE failures[j]]
                      ELSE failures
      /\ futures' = [futures EXCEPT ![i].pc = "collected"]
      /\ UNCHANGED <<pc, sub_session_dirs, depth_dir, semaphore, queries>>
      /\ BatchUnchanged

\* line 1615: future.result() raises what the call raised
CollectRaise ==
    \E i \in 1..Len(futures) :
      /\ op = "llm_query_batch" /\ pc = "collect"
      /\ futures[i].pc = "raised"
      /\ pc' = "shutdown"
      /\ UNCHANGED <<futures, results, failures, sub_session_dirs, depth_dir, semaphore, queries>>
      /\ BatchUnchanged

\* line 1608: the with block of the executor ends once every submitted call
\* has ended, and the exception of future.result() leaves the function
BatchRaise ==
    /\ op = "llm_query_batch" /\ pc = "shutdown"
    /\ \A i \in 1..Len(futures) : futures[i].pc \in {"finished", "collected", "raised"}
    /\ pc' = "raised"
    /\ UNCHANGED <<futures, results, failures, sub_session_dirs, depth_dir, semaphore, queries>>
    /\ BatchUnchanged

\* line 1621: every future was yielded
BatchReturn ==
    /\ op = "llm_query_batch" /\ pc = "collect"
    /\ \A i \in 1..Len(futures) : futures[i].pc = "collected"
    /\ pc' = "done"
    /\ UNCHANGED <<futures, results, failures, sub_session_dirs, depth_dir, semaphore, queries>>
    /\ BatchUnchanged

NextBatch ==
    \/ WorkerStart \/ WorkerMkdir \/ WorkerRun \/ WorkerRmtree \/ WorkerCheck \/ WorkerRmdir
    \/ WorkerLog \/ WorkerBackoff
    \/ Collect \/ CollectRaise \/ BatchRaise \/ BatchReturn

SpecBatch == InitBatch /\ [][NextBatch]_vars

\* C20: Batch result order. Whatever order the workers finish in, the call
\* returns a results list as long as prompts in which results[i] is the final
\* response for prompts[i]: none belongs to another prompt, none is unfilled.
BatchOrder ==
    op = "llm_query_batch" /\ pc \in {"done", "raised"} =>
        /\ pc = "done"
        /\ Len(results) = Len(prompts)
        /\ \A i \in 1..Len(prompts) :
              /\ results[i] = futures[i].response
              /\ results[i].prompt = prompts[i]
              /\ results[i].attempt >= 1

\* C22: Retry protocol. Each prompt is attempted at least once and at most
\* max_retries times, on its own responses only; no attempt follows a
\* response that is not an error; index i is in failures exactly when all
\* max_retries attempts of prompt i gave an error, and then failures[i] has
\* attempts = max_retries and reason max_retries_exhausted and results[i] is
\* the last error.
RetryProtocol ==
    op = "llm_query_batch" =>
      \A i \in 1..Len(futures) :
        LET f == futures[i] IN
        /\ f.attempt <= max_retries
        /\ f.errors >= f.attempt - 1
        /\ (f.pc \in {"finished", "collected"} \/ pc \in {"done", "raised"}) => f.attempt >= 1
        /\ f.response.ok => f.pc \notin {"mkdir", "backoff"} /\ f.errors = f.attempt - 1
        /\ i \in DOMAIN failures => f.pc = "collected"
        /\ f.pc = "collected" =>
              /\ i \in DOMAIN failures <=> f.errors = max_retries
              /\ i \in DOMAIN failures =>
                    /\ failures[i].attempts = max_retries
                    /\ failures[i].reason = "max_retries_exhausted"
                    /\ results[i] = Response(prompts[i], max_retries, FALSE)
                    /\ failures[i].error = results[i]

\* a batch returned in which one prompt used up two attempts and is in
\* failures while another was answered at its second attempt
RetryProtocolWitness ==
    /\ op = "llm_query_batch" /\ pc = "done" /\ max_retries = 2
    /\ \E i, j \in 1..Len(futures) :
          /\ i \in DOMAIN failures /\ futures[i].attempt = 2
          /\ j \notin DOMAIN failures /\ futures[j].attempt = 2 /\ results[j].ok

\* C38: Concurrent cleanup is safe. With cleanup=True no interleaving of one
\* worker's cleanup with another worker's creation of its query directory and
\* prompt file makes a worker raise or lose its prompt file: a running
\* sub-agent has its query directory, and no call ends by raising.
ConcurrentCleanupSafe ==
    op = "llm_query_batch" /\ cleanup =>
        \A i \in 1..Len(futures) :
            /\ futures[i].pc = "run" => i \in sub_session_dirs /\ depth_dir
            /\ futures[i].pc # "raised"

-----------------------------------------------------------------------------
(* The limit on concurrent spawns: the executor of a batch has
   min(concurrency, 5) threads, and every spawn of the process, from a batch
   or from llm_query, holds a permit of _GLOBAL_CONCURRENCY_SEMAPHORE *)

MaxBatch == 5         \* most prompts of a batch under the limit
MaxConcurrency == 7   \* largest requested concurrency
MaxQueries == 1       \* most other threads of the process that spawn

\* a batch, with other threads of the process that call llm_query (or run
\* the calls of another batch) while it runs: batches of at most MaxPrompts
\* prompts with every argument, and batches of MaxBatch prompts that ask for
\* at least five threads, without cleanup or retries
InitLimit ==
    /\ op = "llm_query_batch"
    /\ \E n \in 1..MaxBatch : prompts = [i \in 1..n |-> "p"]
    /\ max_retries \in 1..MaxRetries
    /\ concurrency \in 1..MaxConcurrency
    /\ effective_concurrency = Min(concurrency, 5)
    /\ cleanup \in BOOLEAN
    /\ Len(prompts) > MaxPrompts =>
          /\ Len(prompts) = MaxBatch /\ concurrency >= 5
          /\ max_retries = 1 /\ ~cleanup
    /\ futures = [i \in 1..Len(prompts) |-> Future(i, prompts[i])]
    /\ results = [i \in 1..Len(prompts) |-> NoResponse]
    /\ failures = <<>>
    /\ sub_session_dirs = {}
    /\ depth_dir = FALSE
    /\ semaphore = 5
    /\ \E n \in 0..MaxQueries : queries = [q \in 1..n |-> "idle"]
    /\ spawns = <<>>
    /\ session = <<>>
    /\ pc = "collect"
    /\ CODEMAP_CACHE = "None" /\ installed = FALSE /\ calls = <<>>
    /\ content = <<>>
    /\ ext = ""
    /\ provider = "unavailable"
    /\ symbols = <<>>
    /\ target_size = 1 /\ min_size = 1 /\ max_size = 1
    /\ pos = 0
    /\ chunks = <<>>
    /\ codemap_used = FALSE
    /\ json_chunked = FALSE
    /\ data = NotJson
    /\ format_type = "none"
    /\ chunking_method = "none"

\* llm_query, lines 2109-2110: the thread takes a permit and enters
\* _spawn_sub_agent
QuerySpawn ==
    \E q \in 1..Len(queries) :
      /\ queries[q] = "idle"
      /\ acquire(semaphore)
      /\ semaphore' = semaphore - 1
      /\ queries' = [queries EXCEPT ![q] = "spawn"]
      /\ UNCHANGED <<pc, futures, results, failures, sub_session_dirs, depth_dir>>
      /\ BatchUnchanged

\* llm_query, lines 2109-2115: _spawn_sub_agent returns and the permit is
\* given back
QueryReturn ==
    \E q \in 1..Len(queries) :
      /\ queries[q] = "spawn"
      /\ semaphore' = with_exit(semaphore, FALSE)
      /\ queries' = [queries EXCEPT ![q] = "done"]
      /\ UNCHANGED <<pc, futures, results, failures, sub_session_dirs, depth_dir>>
      /\ BatchUnchanged

NextLimit == NextBatch \/ QuerySpawn \/ QueryReturn

SpecLimit == InitLimit /\ [][NextLimit]_vars

\* the threads of the process that are inside _spawn_sub_agent for llm_query
Spawning == {q \in 1..Len(queries) : queries[q] = "spawn"}

\* C21: while a batch runs, the spawns of the batch in progress are at most
\* min(concurrency, 5), and the spawns of the whole process in progress,
\* the batch's and those of llm_query, are at most 5
ConcurrencyLimit ==
    /\ Cardinality(Active) <= Min(concurrency, 5)
    /\ Cardinality(Active) + Cardinality(Spawning) <= 5

\* five spawns are in progress while another caller waits for a permit, in a
\* batch that asked for a concurrency above five
ConcurrencyLimitWitness ==
    /\ concurrency > 5
    /\ Cardinality(Active) + Cardinality(Spawning) = 5
    /\ semaphore = 0
    /\ \/ \E q \in 1..Len(queries) : queries[q] = "idle"
       \/ \E i \in 1..Len(futures) : futures[i].pc = "mkdir"

\* C37: Semaphore permits are conserved. At every moment the permits of the
\* global semaphore that are held are as many as the _spawn_sub_agent calls in
\* progress: a batch worker that sleeps in retry backoff or writes its batch
\* log entry holds none, a spawn that raised has given its permit back, and
\* once the batch has returned or raised with its workers stopped every permit
\* not held by another thread's spawn is available.
SemaphoreConserved ==
    /\ semaphore \in 0..5
    /\ 5 - semaphore = Cardinality(Active) + Cardinality(Spawning)
    /\ op = "llm_query_batch" /\ pc \in {"done", "raised"} =>
          /\ Active = {}
          /\ semaphore = 5 - Cardinality(Spawning)

\* one call of the batch has raised out of its spawn and another sleeps before
\* its second attempt, while a spawn of llm_query holds the only permit taken
SemaphoreConservedWitness ==
    /\ \E i \in 1..Len(futures) : futures[i].pc = "raised"
    /\ \E j \in 1..Len(futures) : futures[j].pc = "backoff"
    /\ Spawning # {}
    /\ semaphore = 4

-----------------------------------------------------------------------------
(* _spawn_sub_agent: one query of a sub-agent, and the chain of queries that
   its sub-agents make in turn, each in the session directory it was given *)

MaxDepth == 3     \* largest remaining_depth of the outermost call
MaxChain == 5     \* most nested calls of a chain
MaxStdout == 2    \* most lines of a sub-agent's output

\* the prefix every error string of _spawn_sub_agent starts with
ERROR == "[ERROR:"

\* response.startswith("[ERROR:"), a response being its prefix and the rest
startswith_error(response) == Len(response) > 0 /\ response[1] = ERROR

\* lines 1433, 1483, 1488, 1492, 1495: the error strings
DepthError == <<ERROR, "Recursion depth limit reached. Process without sub-queries.]">>
FailedError == <<ERROR, "Sub-agent failed with exit code ...]">>
ParseError == <<ERROR, "Failed to parse sub-agent response]">>
TimeoutError == <<ERROR, "Sub-agent timed out after ...s]">>
ExceptionError == <<ERROR, "Sub-agent exception: ...]">>

\* the lines a sub-agent can print: text that is not JSON, a JSON value that
\* is not an object, an event of another type, the end of a user message,
\* and the end of an assistant message with a text, with a text that starts
\* with the error prefix, and without any text
LineKinds == {"text", "scalar", "event", "user_end", "assistant_end", "assistant_error",
              "assistant_empty"}

\* _parse_pi_json_output, lines 1366-1381: the lines from the last to the
\* first; json.loads fails on text (skipped), event.get fails on a value that
\* is not an object (AttributeError, not caught here), the first assistant
\* message_end gives the joined texts, and "" when there is none
RECURSIVE parse_from(_, _)
parse_from(lines, i) ==
    IF i = 0 THEN [raised |-> FALSE, text |-> <<>>]
    ELSE CASE lines[i] = "scalar" -> [raised |-> TRUE, text |-> <<>>]
           [] lines[i] = "assistant_end" -> [raised |-> FALSE, text |-> <<"answer">>]
           [] lines[i] = "assistant_error" -> [raised |-> FALSE, text |-> <<ERROR, "answer]">>]
           [] lines[i] = "assistant_empty" -> [raised |-> FALSE, text |-> <<>>]
           [] OTHER -> parse_from(lines, i - 1)

parse_pi_json_output(output) == parse_from(output, Len(output))

\* what subprocess.run can do: time out, fail to start, or end with a return
\* code and an output
Outcomes ==
    {[kind |-> "timeout", stdout |-> <<>>], [kind |-> "oserror", stdout |-> <<>>],
     [kind |-> "exit_nonzero", stdout |-> <<>>]}
    \cup {[kind |-> "exit_zero", stdout |-> o] : o \in SeqsUpTo(LineKinds, MaxStdout)}

\* the output holds the end of an assistant message with a text
has_message(o) ==
    \E i \in 1..Len(o.stdout) : o.stdout[i] \in {"assistant_end", "assistant_error"}

\* lines 1470-1496: response and status for an outcome of subprocess.run
Answer(o) ==
    CASE o.kind = "timeout" -> [response |-> TimeoutError, status |-> "timeout"]
      [] o.kind = "oserror" -> [response |-> ExceptionError, status |-> "exception"]
      [] o.kind = "exit_nonzero" -> [response |-> FailedError, status |-> "failed"]
      [] OTHER ->
          LET r == parse_pi_json_output(o.stdout) IN
          IF r.raised THEN [response |-> ExceptionError, status |-> "exception"]
          ELSE IF r.text = <<>> THEN [response |-> ParseError, status |-> "parse_error"]
          ELSE [response |-> r.text, status |-> "success"]

\* a depth that is handed on unchanged
handed_same(remaining_depth) == remaining_depth

\* line 1457: RLM_REMAINING_DEPTH={remaining_depth - 1}
handed_depth(remaining_depth) == remaining_depth - 1

\* a call _spawn_sub_agent(prompt, remaining_depth, session_dir, cleanup):
\* started: subprocess.run was called; handed: the RLM_REMAINING_DEPTH of the
\* command; logged: the status of each entry the call appended to
\* llm_queries.jsonl; query_dir, depth_dir: whether sub_session_dir and
\* session_dir / depth-<n> exist
Frame(d, c) ==
    [remaining_depth |-> d, cleanup |-> c, pc |-> "called", started |-> FALSE,
     handed |-> "None", outcome |-> "None", has_message |-> FALSE, response |-> <<>>,
     logged |-> <<>>, query_dir |-> FALSE, depth_dir |-> FALSE]

InitSpawn ==
    /\ op = "spawn_sub_agent"
    /\ \E d \in (0 - 1)..MaxDepth, c \in BOOLEAN : spawns = <<Frame(d, c)>>
    /\ pc = "spawn"
    /\ NoWorkers
    /\ session = <<>>
    /\ CODEMAP_CACHE = "None" /\ installed = FALSE /\ calls = <<>>
    /\ content = <<>>
    /\ ext = ""
    /\ provider = "unavailable"
    /\ symbols = <<>>
    /\ target_size = 1 /\ min_size = 1 /\ max_size = 1
    /\ pos = 0
    /\ chunks = <<>>
    /\ codemap_used = FALSE
    /\ json_chunked = FALSE
    /\ data = NotJson
    /\ format_type = "none"
    /\ chunking_method = "none"

SpawnUnchanged ==
    UNCHANGED <<ProcessVars, op, content, ext, provider, symbols, target_size, min_size,
                max_size, pos, chunks, codemap_used, json_chunked, data, format_type,
                chunking_method, prompts, max_retries, effective_concurrency, futures,
                results, failures, cleanup, sub_session_dirs, depth_dir, concurrency,
                semaphore, queries, session>>

\* the outermost call has returned
spawn_pc(frames) == IF frames[1].pc = "returned" THEN "done" ELSE "spawn"

\* lines 1428-1466: the directories are made; at the depth limit the call
\* logs, removes its sub_session_dir under cleanup, and returns the error
\* string; otherwise it writes the prompt and starts the sub-agent
SpawnEnter ==
    \E k \in 1..Len(spawns) :
      /\ op = "spawn_sub_agent"
      /\ spawns[k].pc = "called"
      /\ LET f == [spawns[k] EXCEPT !.query_dir = TRUE, !.depth_dir = TRUE] IN
         spawns' = [spawns EXCEPT ![k] =
            IF f.remaining_depth <= 0
            THEN [f EXCEPT !.response = DepthError,
                           !.logged = Append(@, "depth_exceeded"),
                           !.query_dir = IF f.cleanup THEN FALSE ELSE @,
                           !.pc = "returned"]
            ELSE [f EXCEPT !.started = TRUE,
                           !.handed = handed_depth(f.remaining_depth),
                           !.pc = "run"]]
      /\ pc' = spawn_pc(spawns')
      /\ SpawnUnchanged

\* the sub-agent of the innermost call makes a query of its own: llm_query
\* in its session, whose remaining depth is the one it was handed
ChildQuery ==
    /\ op = "spawn_sub_agent"
    /\ Len(spawns) < MaxChain
    /\ spawns[Len(spawns)].pc = "run"
    /\ \E c \in BOOLEAN : spawns' = Append(spawns, Frame(spawns[Len(spawns)].handed, c))
    /\ UNCHANGED pc
    /\ SpawnUnchanged

\* lines 1468-1523: subprocess.run ends, with no query of the sub-agent
\* still running; the call logs, cleans up (the sub_session_dir with all that
\* the sub-agent left in it, then the depth directory, now empty) and returns
SpawnReturn ==
    \E k \in 1..Len(spawns) :
      /\ op = "spawn_sub_agent"
      /\ spawns[k].pc = "run"
      /\ \A j \in (k + 1)..Len(spawns) : spawns[j].pc = "returned"
      /\ \E o \in Outcomes :
           spawns' = [j \in 1..Len(spawns) |->
              IF j < k THEN spawns[j]
              ELSE IF j = k
              THEN [spawns[k] EXCEPT !.outcome = o.kind,
                                     !.has_message = has_message(o),
                                     !.response = Answer(o).response,
                                     !.logged = Append(@, Answer(o).status),
                                     !.query_dir = IF spawns[k].cleanup THEN FALSE ELSE @,
                                     !.depth_dir = IF spawns[k].cleanup THEN FALSE ELSE @,
                                     !.pc = "returned"]
              ELSE IF spawns[k].cleanup
              THEN [spawns[j] EXCEPT !.query_dir = FALSE, !.depth_dir = FALSE]
              ELSE spawns[j]]
      /\ pc' = spawn_pc(spawns')
      /\ SpawnUnchanged

NextSpawn == SpawnEnter \/ ChildQuery \/ SpawnReturn

SpecSpawn == InitSpawn /\ [][NextSpawn]_vars

\* the calls of the chain that started a subprocess
Started == {k \in 1..Len(spawns) : spawns[k].started}

\* C23: Depth limit. A call with remaining_depth <= 0 starts no subprocess
\* and returns the depth-limit error string; a call with remaining_depth
\* d > 0 hands its sub-agent d - 1; so a chain in which every sub-agent
\* queries with the depth it was handed starts at most d subprocess levels
\* from an initial remaining depth d.
DepthLimit ==
    op = "spawn_sub_agent" =>
      /\ \A k \in 1..Len(spawns) :
           LET f == spawns[k] IN
           /\ f.remaining_depth <= 0 =>
                /\ ~f.started
                /\ f.pc = "returned" => f.response = DepthError
           /\ f.started => f.handed = f.remaining_depth - 1
           /\ k > 1 => f.remaining_depth = spawns[k - 1].handed
      /\ Cardinality(Started) <= Max(spawns[1].remaining_depth, 0)

\* a chain from remaining depth 2 or more that started as many levels as its
\* depth and whose innermost call was refused
DepthLimitWitness ==
    /\ op = "spawn_sub_agent"
    /\ spawns[1].remaining_depth >= 2
    /\ Cardinality(Started) = spawns[1].remaining_depth
    /\ Len(spawns) = spawns[1].remaining_depth + 1
    /\ spawns[Len(spawns)].pc = "returned"
    /\ spawns[Len(spawns)].response = DepthError

\* C25: Sub-agent failures are values. Whatever subprocess.run does, the
\* call returns and has appended exactly one log entry; after a timeout, a
\* non-zero exit, an output without a parseable assistant message, or an
\* exception, the response starts with "[ERROR:" and the status is timeout,
\* failed, parse_error, exception respectively; the status is success for an
\* output with an assistant message and depth_exceeded at the depth limit.
FailuresAreValues ==
    op = "spawn_sub_agent" =>
      \A k \in 1..Len(spawns) :
        LET f == spawns[k] IN
        f.pc = "returned" =>
          /\ Len(f.logged) = 1
          /\ f.outcome = "timeout" => startswith_error(f.response) /\ f.logged[1] = "timeout"
          /\ f.outcome = "exit_nonzero" => startswith_error(f.response) /\ f.logged[1] = "failed"
          /\ f.outcome = "oserror" => startswith_error(f.response) /\ f.logged[1] = "exception"
          /\ f.outcome = "exit_zero" /\ ~f.has_message =>
                startswith_error(f.response) /\ f.logged[1] = "parse_error"
          /\ f.outcome = "exit_zero" /\ f.has_message => f.logged[1] = "success"
          /\ f.outcome = "None" => f.logged[1] = "depth_exceeded"

\* no call that encloses call k has removed its sub_session_dir
Undisturbed(k) == \A j \in 1..(k - 1) : ~(spawns[j].pc = "returned" /\ spawns[j].cleanup)

\* C26: Cleanup. After a call with cleanup=True has returned, with no other
\* query in flight, its session directory holds no depth-* directory of that
\* call, for every remaining_depth and every outcome, the refusal at the depth
\* limit included; after a call with cleanup=False the query directory is kept.
CleanupLeavesNothing ==
    op = "spawn_sub_agent" =>
      \A k \in 1..Len(spawns) :
        LET f == spawns[k] IN
        f.pc = "returned" /\ Undisturbed(k) =>
          /\ f.cleanup => ~f.depth_dir /\ ~f.query_dir
          /\ ~f.cleanup => f.query_dir

-----------------------------------------------------------------------------
(* The final answer of a session: exec invocations load the state file, run
   code that may call set_final_answer, and save the state file *)

MaxExecs == 3     \* most exec invocations on the session
MaxSets == 2      \* most calls of set_final_answer in one invocation

\* the values code passes to set_final_answer: None, two JSON values, and a
\* set, which json.dumps rejects
AnswerValues == {"None", "1", "2", "{1, 2}"}

\* lines 2190-2193: json.dumps(value) raises TypeError for a set
json_serializable(value) == value # "{1, 2}"

\* state["final_answer"] = None (cmd_init, line 2288)
NoFinalAnswer == [is_none |-> TRUE, value |-> "None"]

\* lines 2195-2198: state_ref["final_answer"] = {"set_at": ..., "value": value}
final_answer_of(value) == [is_none |-> FALSE, value |-> value]

\* lines 2215 and 2470-2475: state.get("final_answer") is not None
has_final_answer(state) == ~state.final_answer.is_none

\* lines 2228-2229 and 2477: fa["value"] if fa else None
get_final_answer(state) == state.final_answer.value

MaxOps == 2    \* most calls of the handle helpers in one invocation

\* what grep_raw finds: a list of matches, here items that a later predicate
\* keeps ("a") or drops ("b")
GrepResults == {<<"a">>, <<"a", "b">>}

\* the number n of the handle "$res{n}"
HandleNumbers == 1..(MaxExecs * MaxOps)

\* lines 1726-1728: state_ref["handle_counter"] += 1 and
\* handles_ref["$res{handle_counter}"] = data
store_handle(state, d) ==
    LET n == state.handle_counter + 1
    IN [state EXCEPT !.handle_counter = n,
                     !.handles = [k \in DOMAIN state.handles \cup {n} |->
                                     IF k = n THEN d ELSE state.handles[k]]]

\* lines 1866-1879: filtered = [item for item in data if match_fn(item)]
filtered(d) == SelectSeq(d, LAMBDA item : item = "a")

\* lines 1898-1903: item[field] for an item that has the field, else None
extracted(d) == [i \in 1..Len(d) |-> IF d[i] = "a" THEN "field" ELSE "None"]

\* lines 1843-1847: del handles_ref[handle] for a handle of the table
delete_handle(state, h) ==
    IF h \in DOMAIN state.handles
    THEN [state EXCEPT !.handles = [k \in DOMAIN state.handles \ {h} |-> state.handles[k]]]
    ELSE state

\* the state written by cmd_init (lines 2285-2288)
NewState == [final_answer |-> NoFinalAnswer, handles |-> <<>>, handle_counter |-> 0]

\* file: the state file; state_ref: the state of the running invocation;
\* execs, sets, ops: invocations started, calls of set_final_answer and of
\* the handle helpers made in this one; answered, last_value: whether
\* set_final_answer has returned, and its last value; issued: the numbers of
\* the handles stored so far, in order; kept: the last filter_handle or
\* map_field left the data of its source handle as it was
InitSession ==
    /\ op = "exec"
    /\ pc = "idle"
    /\ session = [file |-> NewState,
                  state_ref |-> NewState,
                  execs |-> 0, sets |-> 0, ops |-> 0, answered |-> FALSE, last_value |-> "None",
                  issued |-> <<>>, kept |-> TRUE]
    /\ NoWorkers
    /\ spawns = <<>>
    /\ CODEMAP_CACHE = "None" /\ installed = FALSE /\ calls = <<>>
    /\ content = <<>>
    /\ ext = ""
    /\ provider = "unavailable"
    /\ symbols = <<>>
    /\ target_size = 1 /\ min_size = 1 /\ max_size = 1
    /\ pos = 0
    /\ chunks = <<>>
    /\ codemap_used = FALSE
    /\ json_chunked = FALSE
    /\ data = NotJson
    /\ format_type = "none"
    /\ chunking_method = "none"

SessionUnchanged ==
    UNCHANGED <<ProcessVars, op, content, ext, provider, symbols, target_size, min_size,
                max_size, pos, chunks, codemap_used, json_chunked, data, format_type,
                chunking_method, prompts, max_retries, effective_concurrency, futures,
                results, failures, cleanup, sub_session_dirs, depth_dir, concurrency,
                semaphore, queries, spawns>>

\* cmd_exec, lines 2373-2400: the state file is loaded and the code starts
ExecLoad ==
    /\ op = "exec" /\ pc = "idle"
    /\ session.execs < MaxExecs
    /\ session' = [session EXCEPT !.state_ref = session.file, !.execs = @ + 1, !.sets = 0,
                                  !.ops = 0]
    /\ pc' = "exec"
    /\ SessionUnchanged

\* set_final_answer(value), lines 2189-2205: a value json.dumps rejects
\* raises ValueError and leaves the state as it is
SetFinalAnswer ==
    /\ op = "exec" /\ pc = "exec"
    /\ session.sets < MaxSets
    /\ \E value \in AnswerValues :
         session' = IF json_serializable(value)
                    THEN [session EXCEPT !.state_ref.final_answer = final_answer_of(value),
                                         !.sets = @ + 1,
                                         !.answered = TRUE,
                                         !.last_value = value]
                    ELSE [session EXCEPT !.sets = @ + 1]
    /\ UNCHANGED pc
    /\ SessionUnchanged

\* grep(pattern), lines 1784-1792: the matches are stored under a new handle
Grep ==
    /\ op = "exec" /\ pc = "exec"
    /\ session.ops < MaxOps
    /\ \E d \in GrepResults :
         LET new == store_handle(session.state_ref, d)
         IN session' = [session EXCEPT !.state_ref = new,
                                       !.ops = @ + 1,
                                       !.issued = Append(@, new.handle_counter)]
    /\ UNCHANGED pc
    /\ SessionUnchanged

\* filter_handle(handle, predicate), lines 1849-1881: ValueError for a handle
\* that is not in the table, else the kept items are stored under a new handle
FilterHandle ==
    /\ op = "exec" /\ pc = "exec"
    /\ session.ops < MaxOps
    /\ \E h \in HandleNumbers :
         IF h \notin DOMAIN session.state_ref.handles
         THEN session' = [session EXCEPT !.ops = @ + 1]
         ELSE LET new == store_handle(session.state_ref, filtered(session.state_ref.handles[h]))
              IN session' = [session EXCEPT !.state_ref = new,
                                            !.ops = @ + 1,
                                            !.issued = Append(@, new.handle_counter),
                                            !.kept = new.handles[h] = session.state_ref.handles[h]]
    /\ UNCHANGED pc
    /\ SessionUnchanged

\* map_field(handle, field), lines 1883-1905: ValueError for a handle that is
\* not in the table, else the field values are stored under a new handle
MapField ==
    /\ op = "exec" /\ pc = "exec"
    /\ session.ops < MaxOps
    /\ \E h \in HandleNumbers :
         IF h \notin DOMAIN session.state_ref.handles
         THEN session' = [session EXCEPT !.ops = @ + 1]
         ELSE LET new == store_handle(session.state_ref, extracted(session.state_ref.handles[h]))
              IN session' = [session EXCEPT !.state_ref = new,
                                            !.ops = @ + 1,
                                            !.issued = Append(@, new.handle_counter),
                                            !.kept = new.handles[h] = session.state_ref.handles[h]]
    /\ UNCHANGED pc
    /\ SessionUnchanged

\* delete_handle(handle), lines 1837-1847
DeleteHandle ==
    /\ op = "exec" /\ pc = "exec"
    /\ session.ops < MaxOps
    /\ \E h \in HandleNumbers :
         session' = [session EXCEPT !.state_ref = delete_handle(session.state_ref, h),
                                    !.ops = @ + 1]
    /\ UNCHANGED pc
    /\ SessionUnchanged

\* cmd_exec, lines 2410-2441: the code ends, by itself or with an Exception,
\* and the state is saved
ExecSave ==
    /\ op = "exec" /\ pc = "exec"
    /\ session' = [session EXCEPT !.file = session.state_ref]
    /\ pc' = "idle"
    /\ SessionUnchanged

\* cmd_exec, lines 2410-2441: the code raises SystemExit, which `except
\* Exception` lets through, or leaves in context or buffers an object that
\* pickle.dump rejects: the invocation ends and the state file stays as it was
ExecAbort ==
    /\ op = "exec" /\ pc = "exec"
    /\ pc' = "idle"
    /\ UNCHANGED session
    /\ SessionUnchanged

NextSession ==
    \/ ExecLoad \/ SetFinalAnswer \/ Grep \/ FilterHandle \/ MapField \/ DeleteHandle
    \/ ExecSave \/ ExecAbort

SpecSession == InitSession /\ [][NextSession]_vars

\* the state that has_final_answer() of the running code, or the
\* get-final-answer command between invocations, reads
CurrentState == IF pc = "exec" THEN session.state_ref ELSE session.file

\* C24: Final answer signal. Over any sequence of exec invocations on one
\* session the signal (has_final_answer(), and "set" of get-final-answer) is
\* true exactly when set_final_answer has returned at least once, the value
\* None included, so it never goes back to false, and the value reported is
\* the one of the most recent set_final_answer that returned.
FinalAnswerSignal ==
    op = "exec" =>
      /\ has_final_answer(CurrentState) <=> session.answered
      /\ session.answered => get_final_answer(CurrentState) = session.last_value

\* C39: Handle names are never reused. Over any sequence of grep,
\* filter_handle, map_field and delete_handle calls, across the exec
\* invocations of one session, handle_counter never falls below a number
\* that was issued, each new handle has a number greater than every number
\* issued before, every key of the handles table has a number <=
\* handle_counter, and filter_handle / map_field leave the source handle's
\* data unchanged.
HandleNamesFresh ==
    op = "exec" =>
      /\ \A i \in 1..Len(session.issued) :
            /\ session.issued[i] <= CurrentState.handle_counter
            /\ \A j \in 1..(i - 1) : session.issued[j] < session.issued[i]
      /\ \A k \in DOMAIN CurrentState.handles : k <= CurrentState.handle_counter
      /\ session.kept

====
